---- MODULE Spec2Model ----
(***************************************************************************)
(* InfoViz-demo: the local text-analysis pass (src/text_processor.py,      *)
(* class TextProcessor) and the visualization planner (src/tools.py,       *)
(* class VisualizationTool).                                               *)
(*                                                                         *)
(* Text.  A Python str is modelled as the sequence of its characters, and  *)
(* a character is its code point, ord(c): <<22909>> is 好 and               *)
(* <<20248, 31168>> is 优秀.                                               *)
(* jieba.cut is a library call: an input text is given as the sequence of  *)
(* words jieba.cut yields for it; the text itself is their concatenation   *)
(* (jieba.cut drops no character).                                         *)
(***************************************************************************)
EXTENDS Integers, Sequences, FiniteSets, TLC

(***************************************************************************)
(* Bounds of the model.                                                    *)
(***************************************************************************)
\* longest free word sequence of an input text
MaxWords == 2
\* most filler words (pairwise distinct plain words) in a long input text
MaxFill == 21
\* most repetitions of one sentiment word in an input text
MaxRepeat == 9
\* TextProcessor instances that may be constructed
MaxProcessors == 2
\* most entities, arguments and metrics of a visualization payload
MaxEntities == 6
MaxArguments == 4
MaxMetrics == 6

(***************************************************************************)
(* State.                                                                  *)
(***************************************************************************)
VARIABLES
  jieba_initialized,  \* jieba's process-wide dictionary is loaded
  self_patterns,      \* self.patterns of each TextProcessor, <<>> before __init__
  text,               \* the text under analysis (its words)
  call,               \* the last call: [op, self, words]
  returned,           \* what the last call returned
  first_summary,      \* the first summary returned for the text under analysis,
                      \* with the instance that returned it
  others_since,       \* a summary of another text was made since then
  viz_input,          \* the argument a caller passes to VisualizationTool._run
  viz_output,         \* the configuration _run returned for it
  env_api_key,        \* DEEPSEEK_API_KEY is set in the environment
  app,                \* the InfoVizDemoEN under construction: the api_key its
                      \* caller passes and how the constructor ended
  now,                \* the wall clock, in seconds
  disk,               \* the output directory: path -> the run that wrote the
                      \* file last, and what it wrote
  pending,            \* the calls the caller will make, in order
  running,            \* the call under way: the summary its text analysis made
  reports,            \* the calls that returned, with what they returned
  printed,            \* the last print_summary: the run and how it ended
  crew_result,        \* results['visualization_result'] of the CrewAI run
  main_state,         \* main(): where it is, and what it saved
  tool_text,          \* the argument an agent passes to ContentExtractionTool._run
  extracted,          \* the document ContentExtractionTool._run returned for it
  structuring_argument, \* the argument an agent passes to DataStructuringTool._run
  structured,         \* the document DataStructuringTool._run returned for it
  authenticity        \* what validate_data_authenticity says of viz_output

textVars ==
  <<jieba_initialized, self_patterns, text, call, returned, first_summary, others_since>>

vizVars == <<viz_input, viz_output>>

demoVars == <<env_api_key, app, now, disk, pending, running, reports, printed>>

mainVars == <<crew_result, main_state>>

toolVars == <<tool_text, extracted, structuring_argument, structured, authenticity>>

appVars == <<demoVars, mainVars, toolVars>>

vars == <<textVars, vizVars, appVars>>

(***************************************************************************)
(* Characters.                                                             *)
(***************************************************************************)
\* ord(c)
Ord(c) == c

\* len(word)
WordLen(word) == Len(word)

\* ''.join(words)
RECURSIVE Join(_)
Join(words) ==
  IF words = <<>> THEN <<>> ELSE Head(words) \o Join(Tail(words))

\* regex \d (ASCII digits; the model's alphabet holds no other decimal digit)
IsDigit(c) == Ord(c) >= 48 /\ Ord(c) <= 57

\* regex [A-Za-z]
IsAsciiLetter(c) ==
  \/ Ord(c) >= 65 /\ Ord(c) <= 90
  \/ Ord(c) >= 97 /\ Ord(c) <= 122

\* regex [A-Za-z一-鿿]
IsNameChar(c) == IsAsciiLetter(c) \/ (Ord(c) >= 19968 /\ Ord(c) <= 40959)

\* str.isspace for the characters of the model's alphabet: \t \n \v \f \r,
\* space, no-break space, ideographic space
IsSpace(c) == Ord(c) \in {9, 10, 11, 12, 13, 32, 160, 12288}

\* regex [。！？.!?]
IsSentenceEnd(c) == Ord(c) \in {12290, 65281, 65311, 46, 33, 63}

(***************************************************************************)
(* Sequences.                                                              *)
(***************************************************************************)
Min(a, b) == IF a <= b THEN a ELSE b

\* seq[:n]
Take(seq, n) == SubSeq(seq, 1, Min(n, Len(seq)))

\* the elements of a sequence
Range(seq) == {seq[i] : i \in 1..Len(seq)}

\* sum(1 for x in seq if x in set)
CountIn(seq, set) == Cardinality({i \in 1..Len(seq) : seq[i] \in set})

(***************************************************************************)
(* TextProcessor.__init__: self.patterns, in dict order.                   *)
(***************************************************************************)
patterns ==
  <<"numbers", "percentages", "dates", "money", "emails", "phones", "urls">>

(***************************************************************************)
(* re.findall(pattern, text) for the patterns of self.patterns.            *)
(* MatchEnd is the position after the match that starts at i, 0 if the     *)
(* pattern does not match at i.                                            *)
(***************************************************************************)
\* the position after the run of digits that starts at i
RECURSIVE DigitsEnd(_, _)
DigitsEnd(s, i) ==
  IF i <= Len(s) /\ IsDigit(s[i]) THEN DigitsEnd(s, i + 1) ELSE i

\* s[i] exists and is a digit
DigitAt(s, i) == i >= 1 /\ i <= Len(s) /\ IsDigit(s[i])

\* s[i] exists and is the character c
CharAt(s, i, c) == i >= 1 /\ i <= Len(s) /\ s[i] = c

\* the position after \d+(?:\.\d+)? matched greedily at i (i holds a digit)
DecimalEnd(s, i) ==
  LET j == DigitsEnd(s, i)
  IN  IF CharAt(s, j, 46) /\ DigitAt(s, j + 1) THEN DigitsEnd(s, j + 1) ELSE j

\* 'numbers': r'\d+(?:\.\d+)?'
NumbersEnd(s, i) == IF DigitAt(s, i) THEN DecimalEnd(s, i) ELSE 0

\* 'percentages': r'\d+(?:\.\d+)?%'
PercentagesEnd(s, i) ==
  IF ~DigitAt(s, i) THEN 0
  ELSE LET j == DigitsEnd(s, i)
           k == DecimalEnd(s, i)
       IN  IF CharAt(s, k, 37) THEN k + 1
           ELSE IF CharAt(s, j, 37) THEN j + 1
           ELSE 0

\* regex \w for the characters of the model's alphabet: letters, digits, '_',
\* CJK ideographs
IsWordChar(c) == IsDigit(c) \/ IsNameChar(c) \/ Ord(c) = 95

\* regex \b before position i
Boundary(s, i) ==
  LET before == i > 1 /\ i - 1 <= Len(s) /\ IsWordChar(s[i - 1])
      after == i >= 1 /\ i <= Len(s) /\ IsWordChar(s[i])
  IN  before # after

\* the n characters from i on exist and are digits
AllDigits(s, i, n) == \A k \in i..(i + n - 1) : DigitAt(s, k)

\* s[i] exists and is '-' or '/'
DateSepAt(s, i) == i >= 1 /\ i <= Len(s) /\ Ord(s[i]) \in {45, 47}

\* 'dates': r'\d{4}[-/]\d{1,2}[-/]\d{1,2}'
DatesEnd(s, i) ==
  IF ~(AllDigits(s, i, 4) /\ DateSepAt(s, i + 4) /\ DigitAt(s, i + 5)) THEN 0
  ELSE LET sep2 == IF DigitAt(s, i + 6) /\ DateSepAt(s, i + 7) /\ DigitAt(s, i + 8)
                     THEN i + 7
                   ELSE IF DateSepAt(s, i + 6) /\ DigitAt(s, i + 7) THEN i + 6
                   ELSE 0
       IN  IF sep2 = 0 THEN 0
           ELSE IF DigitAt(s, sep2 + 2) THEN sep2 + 3
           ELSE sep2 + 2

\* the position after (?:,\d{3})* matched greedily at j
RECURSIVE ThousandsEnd(_, _)
ThousandsEnd(s, j) ==
  IF CharAt(s, j, 44) /\ AllDigits(s, j + 1, 3) THEN ThousandsEnd(s, j + 4)
  ELSE j

\* 'money': r'[¥$€£]\d+(?:,\d{3})*(?:\.\d{2})?'
MoneyEnd(s, i) ==
  IF ~(i >= 1 /\ i <= Len(s) /\ Ord(s[i]) \in {165, 36, 8364, 163}
         /\ DigitAt(s, i + 1))
    THEN 0
  ELSE LET j == ThousandsEnd(s, DigitsEnd(s, i + 1))
       IN  IF CharAt(s, j, 46) /\ AllDigits(s, j + 1, 2) THEN j + 3 ELSE j

\* regex [A-Za-z0-9._%+-]
IsEmailLocalChar(c) ==
  IsAsciiLetter(c) \/ IsDigit(c) \/ Ord(c) \in {46, 95, 37, 43, 45}

\* regex [A-Za-z0-9.-]
IsEmailDomainChar(c) == IsAsciiLetter(c) \/ IsDigit(c) \/ Ord(c) \in {46, 45}

\* regex [A-Z|a-z]
IsEmailTldChar(c) == IsAsciiLetter(c) \/ Ord(c) = 124

RECURSIVE EmailLocalEnd(_, _)
EmailLocalEnd(s, i) ==
  IF i <= Len(s) /\ IsEmailLocalChar(s[i]) THEN EmailLocalEnd(s, i + 1) ELSE i

RECURSIVE EmailDomainEnd(_, _)
EmailDomainEnd(s, i) ==
  IF i <= Len(s) /\ IsEmailDomainChar(s[i]) THEN EmailDomainEnd(s, i + 1) ELSE i

RECURSIVE EmailTldEnd(_, _)
EmailTldEnd(s, i) ==
  IF i <= Len(s) /\ IsEmailTldChar(s[i]) THEN EmailTldEnd(s, i + 1) ELSE i

Max(set) == CHOOSE x \in set : \A y \in set : y <= x

\* the ends of [A-Z|a-z]{2,}\b after the dot at d
EmailTldEnds(s, d) == {e \in (d + 3)..EmailTldEnd(s, d + 1) : Boundary(s, e)}

\* 'emails': r'\b[A-Za-z0-9._%+-]+@[A-Za-z0-9.-]+\.[A-Z|a-z]{2,}\b'
\* the local part is a run that must end at '@'; the domain is as long as a
\* following dot and top-level part allow, the top-level part as long as \b allows
EmailsEnd(s, i) ==
  LET at == EmailLocalEnd(s, i)
      dom == EmailDomainEnd(s, at + 1)
      dots == {d \in (at + 2)..(dom - 1) : s[d] = 46 /\ EmailTldEnds(s, d) # {}}
  IN  IF Boundary(s, i) /\ at > i /\ CharAt(s, at, 64) /\ dots # {}
        THEN Max(EmailTldEnds(s, Max(dots)))
      ELSE 0

\* s[i] exists and is '-' or '.'
PhoneSepAt(s, i) == i >= 1 /\ i <= Len(s) /\ Ord(s[i]) \in {45, 46}

\* the choices of \d{3,4} [-.]? \d{3,4} [-.]? in the order the regex tries them
PhoneChoices ==
  << <<4, 1, 4, 1>>, <<4, 1, 4, 0>>, <<4, 1, 3, 1>>, <<4, 1, 3, 0>>,
     <<4, 0, 4, 1>>, <<4, 0, 4, 0>>, <<4, 0, 3, 1>>, <<4, 0, 3, 0>>,
     <<3, 1, 4, 1>>, <<3, 1, 4, 0>>, <<3, 1, 3, 1>>, <<3, 1, 3, 0>>,
     <<3, 0, 4, 1>>, <<3, 0, 4, 0>>, <<3, 0, 3, 1>>, <<3, 0, 3, 0>> >>

\* the position after the match at i under one choice, 0 if it fails
PhoneChoiceEnd(s, i, c) ==
  LET p1 == i + c[1]
      p2 == p1 + c[2]
      p3 == p2 + c[3]
      p4 == p3 + c[4]
  IN  IF /\ AllDigits(s, i, c[1])
         /\ (c[2] = 1 => PhoneSepAt(s, p1))
         /\ AllDigits(s, p2, c[3])
         /\ (c[4] = 1 => PhoneSepAt(s, p3))
         /\ AllDigits(s, p4, 4)
         /\ Boundary(s, p4 + 4)
        THEN p4 + 4
      ELSE 0

\* 'phones': r'\b\d{3,4}[-.]?\d{3,4}[-.]?\d{4}\b'
PhonesEnd(s, i) ==
  LET hits == {k \in 1..Len(PhoneChoices) : PhoneChoiceEnd(s, i, PhoneChoices[k]) # 0}
  IN  IF Boundary(s, i) /\ hits # {}
        THEN PhoneChoiceEnd(s, i, PhoneChoices[CHOOSE k \in hits : \A m \in hits : k <= m])
      ELSE 0

\* regex (?:[a-zA-Z]|[0-9]|[$-_@.&+]|[!*\\(\\),]|(?:%[0-9a-fA-F][0-9a-fA-F])):
\* [$-_] is the range 36..95, which holds the digits, the capitals and every
\* other listed character but '!' (33) and the small letters
IsUrlChar(c) == Ord(c) = 33 \/ (Ord(c) >= 36 /\ Ord(c) <= 95) \/ IsAsciiLetter(c)

RECURSIVE UrlCharsEnd(_, _)
UrlCharsEnd(s, i) ==
  IF i <= Len(s) /\ IsUrlChar(s[i]) THEN UrlCharsEnd(s, i + 1) ELSE i

\* 'urls': r'http[s]?://(?:...)+'
UrlsEnd(s, i) ==
  LET k == IF CharAt(s, i + 4, 115) THEN i + 5 ELSE i + 4
  IN  IF /\ CharAt(s, i, 104) /\ CharAt(s, i + 1, 116)
         /\ CharAt(s, i + 2, 116) /\ CharAt(s, i + 3, 112)
         /\ CharAt(s, k, 58) /\ CharAt(s, k + 1, 47)
         /\ CharAt(s, k + 2, 47)
         /\ k + 3 <= Len(s) /\ IsUrlChar(s[k + 3])
        THEN UrlCharsEnd(s, k + 3)
      ELSE 0

MatchEnd(pattern, s, i) ==
  CASE pattern = "numbers" -> NumbersEnd(s, i)
    [] pattern = "percentages" -> PercentagesEnd(s, i)
    [] pattern = "dates" -> DatesEnd(s, i)
    [] pattern = "money" -> MoneyEnd(s, i)
    [] pattern = "emails" -> EmailsEnd(s, i)
    [] pattern = "phones" -> PhonesEnd(s, i)
    [] pattern = "urls" -> UrlsEnd(s, i)

\* every match, whether or not it overlaps the one before it
RECURSIVE FindAllFrom_overlapping(_, _, _)
FindAllFrom_overlapping(pattern, s, i) ==
  IF i > Len(s) THEN <<>>
  ELSE LET e == MatchEnd(pattern, s, i)
       IN  IF e = 0 THEN FindAllFrom_overlapping(pattern, s, i + 1)
           ELSE <<SubSeq(s, i, e - 1)>> \o FindAllFrom_overlapping(pattern, s, i + 1)

\* re.findall from position i on: the non-overlapping matches, left to right
RECURSIVE FindAllFrom(_, _, _)
FindAllFrom(pattern, s, i) ==
  IF i > Len(s) THEN <<>>
  ELSE LET e == MatchEnd(pattern, s, i)
       IN  IF e = 0 THEN FindAllFrom(pattern, s, i + 1)
           ELSE <<SubSeq(s, i, e - 1)>> \o FindAllFrom(pattern, s, e)

FindAll(pattern, s) == FindAllFrom(pattern, s, 1)

(***************************************************************************)
(* TextProcessor.extract_structured_data                                   *)
(***************************************************************************)
\* _get_stopwords: 的 了 在 是 我 有 和 就 不 人 都 一 一个 上 也 很 到 说 要 去
\* 你 会 着 没有 看 好 自己 这
_get_stopwords ==
  { <<30340>>, <<20102>>, <<22312>>, <<26159>>, <<25105>>, <<26377>>,
    <<21644>>, <<23601>>, <<19981>>, <<20154>>, <<37117>>, <<19968>>,
    <<19968, 20010>>, <<19978>>, <<20063>>, <<24456>>, <<21040>>, <<35828>>,
    <<35201>>, <<21435>>, <<20320>>, <<20250>>, <<30528>>, <<27809, 26377>>,
    <<30475>>, <<22909>>, <<33258, 24049>>, <<36825>> }

\* the filter without its stop-word test
filtered_words_keep_stopwords(words) ==
  SelectSeq(words, LAMBDA word : WordLen(word) > 1)

\* [word for word in words if len(word) > 1 and word not in self._get_stopwords()]
filtered_words(words) ==
  SelectSeq(words, LAMBDA word : WordLen(word) > 1 /\ word \notin _get_stopwords)

\* the keys of Counter(words): the distinct words in the order of their first
\* occurrence
RECURSIVE CounterKeys(_, _)
CounterKeys(words, seen) ==
  IF words = <<>> THEN <<>>
  ELSE IF Head(words) \in seen THEN CounterKeys(Tail(words), seen)
  ELSE <<Head(words)>> \o CounterKeys(Tail(words), seen \cup {Head(words)})

\* Counter(words).items(): (word, count) pairs in insertion order
Counter(words) ==
  LET keys == CounterKeys(words, {})
  IN  [k \in 1..Len(keys) |->
         <<keys[k], Cardinality({i \in 1..Len(words) : words[i] = keys[k]})>>]

\* sorted(items, key=count, reverse=True): by count, largest first; equal counts
\* keep their order
RECURSIVE SortedByCount(_)
SortedByCount(items) ==
  IF items = <<>> THEN <<>>
  ELSE LET top == Max({items[i][2] : i \in 1..Len(items)})
           at == CHOOSE i \in 1..Len(items) :
                   /\ items[i][2] = top
                   /\ \A j \in 1..(i - 1) : items[j][2] # top
       IN  <<items[at]>>
             \o SortedByCount(SubSeq(items, 1, at - 1) \o SubSeq(items, at + 1, Len(items)))

\* Counter.most_common(n)
most_common(items, n) == Take(SortedByCount(items), n)

\* the n of word_freq.most_common(20)
KeywordLimit == 20

\* re.split(r'[。！？.!?]', text): the fragments between sentence ends
RECURSIVE SplitSentences(_, _)
SplitSentences(s, fragment) ==
  IF s = <<>> THEN <<fragment>>
  ELSE IF IsSentenceEnd(Head(s)) THEN <<fragment>> \o SplitSentences(Tail(s), <<>>)
  ELSE SplitSentences(Tail(s), Append(fragment, Head(s)))

\* str.lstrip
RECURSIVE LStrip(_)
LStrip(s) == IF s # <<>> /\ IsSpace(Head(s)) THEN LStrip(Tail(s)) ELSE s

\* str.rstrip
RECURSIVE RStrip(_)
RStrip(s) ==
  IF s # <<>> /\ IsSpace(s[Len(s)]) THEN RStrip(SubSeq(s, 1, Len(s) - 1)) ELSE s

\* str.strip
Strip(s) == RStrip(LStrip(s))

\* [s.strip() for s in sentences if s.strip()]
StrippedNonEmpty(fragments) ==
  LET stripped == [i \in 1..Len(fragments) |-> Strip(fragments[i])]
  IN  SelectSeq(stripped, LAMBDA f : f # <<>>)

\* len(text.split()): the runs of characters that are not white space
SplitCount(s) ==
  Cardinality({i \in 1..Len(s) : ~IsSpace(s[i]) /\ (i = 1 \/ IsSpace(s[i - 1]))})

\* result[pattern_name] after `for pattern_name, pattern in self.patterns.items()`:
\* the matches if the instance holds the pattern, else the initial []
PatternMatches(pats, pattern_name, s) ==
  IF pattern_name \in Range(pats) THEN FindAll(pattern_name, s) ELSE <<>>

\* the list word_freq.most_common(20) stored as result['keywords']
keywords_of(word_freq) == most_common(word_freq, KeywordLimit)

\* extract_structured_data(self, text): pats is self.patterns, the text is given
\* by the words jieba.cut yields for it
extract_structured_data(pats, words) ==
  LET s == Join(words)
      word_freq == Counter(filtered_words(words))
  IN  [ text_length |-> Len(s),
        word_count |-> SplitCount(s),
        char_count |-> Len(s),
        numbers |-> PatternMatches(pats, "numbers", s),
        percentages |-> PatternMatches(pats, "percentages", s),
        dates |-> PatternMatches(pats, "dates", s),
        money |-> PatternMatches(pats, "money", s),
        emails |-> PatternMatches(pats, "emails", s),
        phones |-> PatternMatches(pats, "phones", s),
        urls |-> PatternMatches(pats, "urls", s),
        keywords |-> keywords_of(word_freq),
        sentences |-> StrippedNonEmpty(SplitSentences(s, <<>>)) ]

(***************************************************************************)
(* TextProcessor.extract_entities                                          *)
(* A pattern [A-Za-z一-鿿]{lo,hi}suffix is a record; hi = 0 stands for '+'  *)
(* (no upper limit).                                                       *)
(***************************************************************************)
\* 先生 女士 博士 教授, each after 2 to 4 name characters
person_patterns ==
  << [lo |-> 2, hi |-> 4, suffix |-> <<20808, 29983>>],
     [lo |-> 2, hi |-> 4, suffix |-> <<22899, 22763>>],
     [lo |-> 2, hi |-> 4, suffix |-> <<21338, 22763>>],
     [lo |-> 2, hi |-> 4, suffix |-> <<25945, 25480>>] >>

\* 公司 集团 大学 研究院 中心
org_patterns ==
  << [lo |-> 1, hi |-> 0, suffix |-> <<20844, 21496>>],
     [lo |-> 1, hi |-> 0, suffix |-> <<38598, 22242>>],
     [lo |-> 1, hi |-> 0, suffix |-> <<22823, 23398>>],
     [lo |-> 1, hi |-> 0, suffix |-> <<30740, 31350, 38498>>],
     [lo |-> 1, hi |-> 0, suffix |-> <<20013, 24515>>] >>

\* 市 省 县 区
location_patterns ==
  << [lo |-> 1, hi |-> 0, suffix |-> <<24066>>],
     [lo |-> 1, hi |-> 0, suffix |-> <<30465>>],
     [lo |-> 1, hi |-> 0, suffix |-> <<21439>>],
     [lo |-> 1, hi |-> 0, suffix |-> <<21306>>] >>

\* the position after the run of name characters that starts at i
RECURSIVE NameRunEnd(_, _)
NameRunEnd(s, i) ==
  IF i <= Len(s) /\ IsNameChar(s[i]) THEN NameRunEnd(s, i + 1) ELSE i

\* the positions at which the suffix of a pattern stands in s
SuffixStarts(suffix, s) ==
  {j \in 1..(Len(s) - Len(suffix) + 1) :
     s[j] = suffix[1] /\ SubSeq(s, j, j + Len(suffix) - 1) = suffix}

\* the position after the match of an entity pattern at i, 0 if there is none:
\* the repetition takes as many name characters as leave the suffix after them
\* (starts = SuffixStarts(p.suffix, s))
EntityMatchEnd(p, s, i, starts) ==
  LET ends == {j \in starts :
                 /\ j - i >= p.lo
                 /\ j <= NameRunEnd(s, i)
                 /\ (p.hi # 0 => j - i <= p.hi)}
  IN  IF ends = {} THEN 0 ELSE Max(ends) + Len(p.suffix)

\* re.findall(pattern, text) from position i on
RECURSIVE EntityFindAllFrom(_, _, _, _)
EntityFindAllFrom(p, s, i, starts) ==
  IF i > Len(s) THEN <<>>
  ELSE LET e == EntityMatchEnd(p, s, i, starts)
       IN  IF e = 0 THEN EntityFindAllFrom(p, s, i + 1, starts)
           ELSE <<SubSeq(s, i, e - 1)>> \o EntityFindAllFrom(p, s, e, starts)

\* re.findall(pattern, text)
EntityFindAll(p, s) == EntityFindAllFrom(p, s, 1, SuffixStarts(p.suffix, s))

\* for pattern in pats: entities[...].extend(re.findall(pattern, text))
RECURSIVE ExtendAll(_, _)
ExtendAll(pats, s) ==
  IF pats = <<>> THEN <<>>
  ELSE EntityFindAll(Head(pats), s) \o ExtendAll(Tail(pats), s)

\* faulty variant of extract_entities: the entities dict shared between calls
\* instead of built anew, so each call extends the lists of the call before
extract_entities_shared(words) ==
  LET s == Join(words)
      before == IF call.op = "create_data_summary" THEN returned.entities
                ELSE [persons |-> <<>>, organizations |-> <<>>, locations |-> <<>>,
                      products |-> <<>>, technologies |-> <<>>]
  IN  [ persons |-> before.persons \o ExtendAll(person_patterns, s),
        organizations |-> before.organizations \o ExtendAll(org_patterns, s),
        locations |-> before.locations \o ExtendAll(location_patterns, s),
        products |-> before.products,
        technologies |-> before.technologies ]

extract_entities(words) ==
  LET s == Join(words)
  IN  [ persons |-> ExtendAll(person_patterns, s),
        organizations |-> ExtendAll(org_patterns, s),
        locations |-> ExtendAll(location_patterns, s),
        products |-> <<>>,
        technologies |-> <<>> ]

(***************************************************************************)
(* TextProcessor.analyze_sentiment                                         *)
(* The score is a Python number: the int 0, or the quotient of two ints,   *)
(* kept as the fraction num/den (den > 0).  With counts this small the     *)
(* float comparisons with 0.1 and -0.1 agree with the exact ones.          *)
(***************************************************************************)
\* 好 优秀 成功 增长 提升 改善 满意 喜欢 推荐 积极
positive_words ==
  { <<22909>>, <<20248, 31168>>, <<25104, 21151>>, <<22686, 38271>>, <<25552, 21319>>,
    <<25913, 21892>>, <<28385, 24847>>, <<21916, 27426>>, <<25512, 33616>>, <<31215, 26497>> }

\* 差 失败 下降 问题 困难 不满 批评 负面 糟糕 消极
negative_words ==
  { <<24046>>, <<22833, 36133>>, <<19979, 38477>>, <<38382, 39064>>, <<22256, 38590>>,
    <<19981, 28385>>, <<25209, 35780>>, <<36127, 38754>>, <<31967, 31957>>, <<28040, 26497>> }

\* the labels 正面 (positive), 负面 (negative), 中性 (neutral)
LabelPositive == <<27491, 38754>>
LabelNegative == <<36127, 38754>>
LabelNeutral == <<20013, 24615>>

\* faulty variant of AboveTenth: the threshold counted as above itself (>=)
AboveTenth_inclusive(a, b) == 10 * a >= b

\* a / b > 1/10, for b > 0
AboveTenth(a, b) == 10 * a > b

\* a / b < -1/10, for b > 0
BelowMinusTenth(a, b) == 10 * a < -b

\* Python's a / b on ints: ZeroDivisionError when b = 0
TrueDiv(a, b) ==
  IF b = 0 THEN [raised |-> TRUE, value |-> [num |-> 0, den |-> 1]]
  ELSE [raised |-> FALSE, value |-> [num |-> a, den |-> b]]

\* faulty variant of sentiment_is_empty: the test for an empty count left out
sentiment_is_empty_unguarded(total_sentiment_words) == FALSE

\* the test `if total_sentiment_words == 0`
sentiment_is_empty(total_sentiment_words) == total_sentiment_words = 0

\* the labelling `if sentiment_score > 0.1 ... elif sentiment_score < -0.1 ... else`
sentiment_label_of(score) ==
  IF AboveTenth(score.num, score.den) THEN LabelPositive
  ELSE IF BelowMinusTenth(score.num, score.den) THEN LabelNegative
  ELSE LabelNeutral

\* faulty variant of sentiment_quotient: the negative count not subtracted
sentiment_quotient_positive_share(positive_count, negative_count) ==
  TrueDiv(positive_count, positive_count + negative_count)

\* the quotient (positive_count - negative_count) / total_sentiment_words
sentiment_quotient(positive_count, negative_count) ==
  TrueDiv(positive_count - negative_count, positive_count + negative_count)

\* sentiment_score and sentiment_label from the two counts
sentiment_of(positive_count, negative_count) ==
  IF sentiment_is_empty(positive_count + negative_count)
    THEN [raised |-> FALSE,
          sentiment_score |-> [num |-> 0, den |-> 1],
          sentiment_label |-> LabelNeutral]
  ELSE LET q == sentiment_quotient(positive_count, negative_count)
       IN  [raised |-> q.raised,
            sentiment_score |-> q.value,
            sentiment_label |-> sentiment_label_of(q.value)]

\* total_sentiment_words = positive_count + negative_count
total_of(positive_count, negative_count) == positive_count + negative_count

analyze_sentiment(words) ==
  LET positive_count == CountIn(words, positive_words)
      negative_count == CountIn(words, negative_words)
      scored == sentiment_of(positive_count, negative_count)
  IN  [ raised |-> scored.raised,
        sentiment_score |-> scored.sentiment_score,
        sentiment_label |-> scored.sentiment_label,
        positive_count |-> positive_count,
        negative_count |-> negative_count,
        total_sentiment_words |-> total_of(positive_count, negative_count) ]

(***************************************************************************)
(* TextProcessor.create_data_summary                                       *)
(***************************************************************************)
\* the n of structured_data['keywords'][:10]
TopKeywordLimit == 10

\* len(set(structured_data['keywords']))
unique_words_of(keywords) == Cardinality(Range(keywords))

\* structured_data['keywords'][:10]
top_keywords_of(keywords) == Take(keywords, TopKeywordLimit)

\* the summary dict, from the three analyses create_data_summary makes
data_summary_of(structured_data, entities, sentiment) ==
      [ raised |-> sentiment.raised,
        basic_stats |->
          [ text_length |-> structured_data.text_length,
            word_count |-> structured_data.word_count,
            sentence_count |-> Len(structured_data.sentences),
            unique_words |-> unique_words_of(structured_data.keywords) ],
        data_extraction |->
          [ numbers_found |-> Len(structured_data.numbers),
            percentages_found |-> Len(structured_data.percentages),
            dates_found |-> Len(structured_data.dates),
            money_found |-> Len(structured_data.money),
            emails_found |-> Len(structured_data.emails),
            phones_found |-> Len(structured_data.phones),
            urls_found |-> Len(structured_data.urls) ],
        entities |-> entities,
        sentiment |-> sentiment,
        top_keywords |-> top_keywords_of(structured_data.keywords),
        extracted_data |-> structured_data ]

create_data_summary(pats, words) ==
  data_summary_of(extract_structured_data(pats, words), extract_entities(words),
                  analyze_sentiment(words))

(***************************************************************************)
(* JSON values, as json.loads returns them: a record with its Python type. *)
(* A number is mantissa / 10^scale; a dict is the sequence of its          *)
(* (key, value) pairs in insertion order.  Lists hold strings or dicts.    *)
(***************************************************************************)
JNull == [type |-> "null"]
JNum(m, sc) == [type |-> "num", mantissa |-> m, scale |-> sc]
JInt(m) == JNum(m, 0)
JStr(chars) == [type |-> "str", chars |-> chars]
JList(items) == [type |-> "list", items |-> items]
JDict(pairs) == [type |-> "dict", pairs |-> pairs]

\* the outcome of a Python expression: a value, or an exception
Value(v) == [raised |-> FALSE, value |-> v]
Raised == [raised |-> TRUE, value |-> JNull]

\* key in d, for a dict d
HasKey(d, key) == \E i \in 1..Len(d.pairs) : d.pairs[i][1] = key

\* d[key], for a dict d that holds the key
Lookup(d, key) == d.pairs[CHOOSE i \in 1..Len(d.pairs) : d.pairs[i][1] = key][2]

\* d.get(key, default), for a dict d
Get(d, key, default) == IF HasKey(d, key) THEN Lookup(d, key) ELSE default

\* bool(v)
Truthy(v) ==
  CASE v.type = "null" -> FALSE
    [] v.type = "num" -> v.mantissa # 0
    [] v.type = "str" -> v.chars # <<>>
    [] v.type = "list" -> v.items # <<>>
    [] v.type = "dict" -> v.pairs # <<>>

\* sub in s, for two strings
IsSubstring(sub, s) ==
  \E i \in 1..(Len(s) - Len(sub) + 1) : SubSeq(s, i, i + Len(sub) - 1) = sub

\* key in data: TypeError for a number or None
Contains(data, key) ==
  CASE data.type = "dict" -> Value(HasKey(data, key))
    [] data.type = "list" -> Value(\E i \in 1..Len(data.items) : data.items[i] = JStr(key))
    [] data.type = "str" -> Value(Len(key) = 0 \/ IsSubstring(key, data.chars))
    [] OTHER -> Raised

\* v[:n]: TypeError (KeyError) for a dict, a number or None
Slice(v, n) ==
  CASE v.type = "list" -> Value(JList(Take(v.items, n)))
    [] v.type = "str" -> Value(JStr(Take(v.chars, n)))
    [] OTHER -> Raised

\* 10 ** n
RECURSIVE Pow10(_)
Pow10(n) == IF n = 0 THEN 1 ELSE 10 * Pow10(n - 1)

\* the decimal digits of a natural number, as characters: str(n)
RECURSIVE Digits(_)
Digits(n) == IF n < 10 THEN <<48 + n>> ELSE Append(Digits(n \div 10), 48 + (n % 10))

\* len(str(entity)) for a string, a whole number or None ('None')
PyStrLen(v) ==
  CASE v.type = "str" -> Len(v.chars)
    [] v.type = "num" ->
         IF v.mantissa < 0 THEN 1 + Len(Digits(-v.mantissa)) ELSE Len(Digits(v.mantissa))
    [] v.type = "null" -> 4

\* list(v): the elements a `for` loop over v sees; TypeError for a number or None
Iterate(v) ==
  CASE v.type = "list" -> Value(v.items)
    [] v.type = "str" -> Value([i \in 1..Len(v.chars) |-> JStr(<<v.chars[i]>>)])
    [] v.type = "dict" -> Value([i \in 1..Len(v.pairs) |-> JStr(v.pairs[i][1])])
    [] OTHER -> Raised

(***************************************************************************)
(* Strings of src/tools.py.                                                *)
(***************************************************************************)
\* 'entities', 'metrics', 'categories', 'core_arguments'
KeyEntities == <<101, 110, 116, 105, 116, 105, 101, 115>>
KeyMetrics == <<109, 101, 116, 114, 105, 99, 115>>
KeyCategories == <<99, 97, 116, 101, 103, 111, 114, 105, 101, 115>>
KeyCoreArguments == <<99, 111, 114, 101, 95, 97, 114, 103, 117, 109, 101, 110, 116, 115>>

\* 内容摘要, 关键指标, 实体长度分布, 指标分析, 数据错误
TitleSummary == <<20869, 23481, 25688, 35201>>
TitleMetrics == <<20851, 38190, 25351, 26631>>
TitleEntityChart == <<23454, 20307, 38271, 24230, 20998, 24067>>
TitleMetricsChart == <<25351, 26631, 20998, 26512>>
TitleError == <<25968, 25454, 38169, 35823>>

\* 无法生成可视化配置，请检查输入数据
ErrorMessage ==
  <<26080, 27861, 29983, 25104, 21487, 35270, 21270, 37197, 32622, 65292, 35831, 26816, 26597, 36755, 20837, 25968, 25454>>

\* 可视化生成失败
ErrorText == <<21487, 35270, 21270, 29983, 25104, 22833, 36133>>

\* 基于结构化数据生成的可视化配置
Description ==
  <<22522, 20110, 32467, 26500, 21270, 25968, 25454, 29983, 25104, 30340, 21487, 35270, 21270, 37197, 32622>>

\* 回退可视化配置
FallbackDescription == <<22238, 36864, 21487, 35270, 21270, 37197, 32622>>

\* 短(1-3字符), 中(4-8字符), 长(9+字符)
GroupShort == <<30701, 40, 49, 45, 51, 23383, 31526, 41>>
GroupMedium == <<20013, 40, 52, 45, 56, 23383, 31526, 41>>
GroupLong == <<38271, 40, 57, 43, 23383, 31526, 41>>

(***************************************************************************)
(* VisualizationTool                                                       *)
(* The generation_timestamp of a result is the wall clock; it is left out. *)
(***************************************************************************)
\* _validate_visualization_data: all(key in data for key in required_keys)
required_keys == <<KeyEntities, KeyMetrics, KeyCategories, KeyCoreArguments>>

_validate_visualization_data(data) ==
  IF Contains(data, required_keys[1]).raised THEN Raised
  ELSE Value(\A k \in 1..Len(required_keys) : Contains(data, required_keys[k]).value)

\* the n of data.get('entities', [])[:5]
SummaryEntityLimit == 5
\* the n of data.get('core_arguments', [])[:3]
SummaryArgumentLimit == 3

\* the test `if data.get('entities') or data.get('core_arguments')`
wants_summary_card(data) ==
  Truthy(Get(data, KeyEntities, JNull)) \/ Truthy(Get(data, KeyCoreArguments, JNull))

\* the test `if data.get('metrics')` of _generate_cards
wants_metrics_card(data) == Truthy(Get(data, KeyMetrics, JNull))

\* _generate_cards: data.get raises AttributeError unless data is a dict
_generate_cards(data) ==
  IF data.type # "dict" THEN Raised
  ELSE LET entities == Slice(Get(data, KeyEntities, JList(<<>>)), SummaryEntityLimit)
           arguments == Slice(Get(data, KeyCoreArguments, JList(<<>>)), SummaryArgumentLimit)
           summary_card ==
             [ type |-> "card", card_id |-> "summary", title |-> TitleSummary,
               content |-> [entities |-> entities.value, arguments |-> arguments.value] ]
           metrics_card ==
             [ type |-> "card", card_id |-> "metrics", title |-> TitleMetrics,
               content |-> [metrics |-> Get(data, KeyMetrics, JDict(<<>>))] ]
       IN  IF wants_summary_card(data) /\ (entities.raised \/ arguments.raised) THEN Raised
           ELSE Value((IF wants_summary_card(data) THEN <<summary_card>> ELSE <<>>)
                        \o (IF wants_metrics_card(data) THEN <<metrics_card>> ELSE <<>>))

\* a function's `return None`
None == [raised |-> FALSE, none |-> TRUE, value |-> JNull]
Some(v) == [raised |-> FALSE, none |-> FALSE, value |-> v]
RaisedIn == [raised |-> TRUE, none |-> FALSE, value |-> JNull]

\* the series type of the entity chart
entity_chart_type == "pie"

\* _create_entity_chart
_create_entity_chart(entities) ==
  IF ~Truthy(entities) THEN None
  ELSE IF Iterate(entities).raised THEN RaisedIn
  ELSE LET items == Iterate(entities).value
           lengths == [i \in 1..Len(items) |-> PyStrLen(items[i])]
           short == Cardinality({i \in 1..Len(items) : lengths[i] <= 3})
           medium == Cardinality({i \in 1..Len(items) : lengths[i] > 3 /\ lengths[i] <= 8})
           long == Cardinality({i \in 1..Len(items) : lengths[i] > 8})
           length_groups ==
             << [name |-> GroupShort, value |-> short],
                [name |-> GroupMedium, value |-> medium],
                [name |-> GroupLong, value |-> long] >>
       IN  Some([ type |-> "echarts", chart_id |-> "entity_distribution",
                  title |-> TitleEntityChart,
                  config |->
                    [ series_type |-> entity_chart_type,
                      data |-> SelectSeq(length_groups, LAMBDA g : g.value > 0) ] ])

\* regex [\d.]
IsDigitOrDot(c) == IsDigit(c) \/ c = 46

\* the position after the run of digits and dots that starts at i
RECURSIVE NumberRunEnd(_, _)
NumberRunEnd(s, i) ==
  IF i <= Len(s) /\ IsDigitOrDot(s[i]) THEN NumberRunEnd(s, i + 1) ELSE i

\* re.findall(r'[\d.]+', value): the first match, <<>> if there is none
FirstNumberRun(s) ==
  LET starts == {i \in 1..Len(s) : IsDigitOrDot(s[i])}
  IN  IF starts = {} THEN <<>>
      ELSE LET i == CHOOSE j \in starts : \A k \in starts : j <= k
           IN  SubSeq(s, i, NumberRunEnd(s, i) - 1)

\* int(digits), for a run of digits
RECURSIVE DigitsValue(_)
DigitsValue(ds) ==
  IF ds = <<>> THEN 0 ELSE 10 * DigitsValue(SubSeq(ds, 1, Len(ds) - 1)) + (ds[Len(ds)] - 48)

\* float(run) for a run of digits and dots: ValueError unless the run holds a
\* digit and at most one dot
ParseFloat(run) ==
  LET dots == {i \in 1..Len(run) : run[i] = 46}
      digits == SelectSeq(run, IsDigit)
  IN  IF Cardinality(dots) > 1 \/ digits = <<>> THEN Raised
      ELSE Value(JNum(DigitsValue(digits),
                      IF dots = {} THEN 0 ELSE Len(run) - (CHOOSE i \in dots : TRUE)))

\* the (label, value) pair a metric contributes to the chart, <<>> if none
metric_point(key, value) ==
  CASE value.type = "num" -> <<[label |-> key, value |-> value]>>
    [] value.type = "str" ->
         LET run == FirstNumberRun(value.chars)
         IN  IF run = <<>> \/ ParseFloat(run).raised THEN <<>>
             ELSE <<[label |-> key, value |-> ParseFloat(run).value]>>
    [] OTHER -> <<>>

RECURSIVE metric_points(_)
metric_points(pairs) ==
  IF pairs = <<>> THEN <<>>
  ELSE metric_point(Head(pairs)[1], Head(pairs)[2]) \o metric_points(Tail(pairs))

\* the chart_id of the metrics chart
metrics_chart_id_of_card == "metrics"

metrics_chart_id == "metrics_analysis"

\* _create_metrics_chart: metrics.items() raises AttributeError unless metrics
\* is a dict
_create_metrics_chart(metrics) ==
  IF ~Truthy(metrics) THEN None
  ELSE IF metrics.type # "dict" THEN RaisedIn
  ELSE LET points == metric_points(metrics.pairs)
       IN  IF points = <<>> THEN None
           ELSE Some([ type |-> "echarts", chart_id |-> metrics_chart_id,
                       title |-> TitleMetricsChart,
                       config |->
                         [ series_type |-> "bar",
                           labels |-> [i \in 1..Len(points) |-> points[i].label],
                           values |-> [i \in 1..Len(points) |-> points[i].value] ] ])

\* _generate_charts, for a dict
_generate_charts(data) ==
  LET entity_chart ==
        IF Truthy(Get(data, KeyEntities, JNull))
          THEN _create_entity_chart(Lookup(data, KeyEntities))
        ELSE None
      metrics_chart ==
        IF Truthy(Get(data, KeyMetrics, JNull))
          THEN _create_metrics_chart(Lookup(data, KeyMetrics))
        ELSE None
  IN  IF entity_chart.raised \/ metrics_chart.raised THEN Raised
      ELSE Value((IF entity_chart.none THEN <<>> ELSE <<entity_chart.value>>)
                   \o (IF metrics_chart.none THEN <<>> ELSE <<metrics_chart.value>>))

\* _generate_visualization_config
_generate_visualization_config(data) ==
  LET cards == _generate_cards(data)
      charts == _generate_charts(data)
  IN  IF cards.raised THEN Raised
      ELSE IF charts.raised THEN Raised
      ELSE LET visualizations == cards.value \o charts.value
           IN  Value([ visualizations |-> visualizations,
                       total_items |-> Len(visualizations),
                       description |-> Description ])

\* _create_default_data: 示例实体1, 示例实体2; 示例指标: 示例值; 示例分类; 示例论点
_create_default_data ==
  JDict(<< <<KeyEntities, JList(<<JStr(<<31034, 20363, 23454, 20307, 49>>),
                                    JStr(<<31034, 20363, 23454, 20307, 50>>)>>)>>,
           <<KeyMetrics, JDict(<< <<<<31034, 20363, 25351, 26631>>,
                                    JStr(<<31034, 20363, 20540>>)>> >>)>>,
           <<KeyCategories, JList(<<JStr(<<31034, 20363, 20998, 31867>>)>>)>>,
           <<KeyCoreArguments, JList(<<JStr(<<31034, 20363, 35770, 28857>>)>>)>> >>)

\* _create_fallback_visualization
_create_fallback_visualization ==
  [ visualizations |->
      << [ type |-> "card", card_id |-> "error_card", title |-> TitleError,
           content |-> [message |-> ErrorMessage] ] >>,
    total_items |-> 1,
    description |-> FallbackDescription,
    error |-> ErrorText ]

\* json.loads(structured_data): JSONDecodeError unless the text is JSON
JsonLoads(structured_data) ==
  IF structured_data.json THEN Value(structured_data.value) ELSE Raised

\* the data _run works on: the parsed text, the default data for a text that is
\* not JSON, the argument itself if it is no str
parsed_data(structured_data) ==
  IF structured_data.kind = "text"
    THEN IF JsonLoads(structured_data).raised THEN _create_default_data
         ELSE JsonLoads(structured_data).value
  ELSE structured_data.value

\* _run: the configuration it returns (as json.dumps writes it); every
\* exception is caught and answered with the fallback
_run(structured_data) ==
  LET data == parsed_data(structured_data)
      valid == _validate_visualization_data(data)
      config == _generate_visualization_config(data)
  IN  IF valid.raised THEN _create_fallback_visualization
      ELSE IF ~valid.value THEN _create_fallback_visualization
      ELSE IF config.raised THEN _create_fallback_visualization
      ELSE config.value

(***************************************************************************)
(* DeepSeekClient                                                          *)
(* An exception carries its class.  str(e), the text of a message, is a    *)
(* string known by the exception it reports.                               *)
(***************************************************************************)
Throw(exc) == [raised |-> TRUE, exc |-> exc, value |-> JNull]
Return(v) == [raised |-> FALSE, exc |-> "", value |-> v]

\* str(e) and the f-strings built from it
Message(exc) == [type |-> "str", exc |-> exc]

\* 'choices', 'message', 'content', 'error', 'raw_response'
KeyChoices == <<99, 104, 111, 105, 99, 101, 115>>
KeyMessage == <<109, 101, 115, 115, 97, 103, 101>>
KeyContent == <<99, 111, 110, 116, 101, 110, 116>>
KeyErrorField == <<101, 114, 114, 111, 114>>
KeyRawResponse == <<114, 97, 119, 95, 114, 101, 115, 112, 111, 110, 115, 101>>

\* v[key] for a str key
GetItem(v, key) ==
  CASE v.type = "dict" -> IF HasKey(v, key) THEN Return(Lookup(v, key)) ELSE Throw("KeyError")
    [] OTHER -> Throw("TypeError")

\* v[0]
GetFirst(v) ==
  CASE v.type = "list" -> IF v.items # <<>> THEN Return(v.items[1]) ELSE Throw("IndexError")
    [] v.type = "str" ->
         IF v.chars # <<>> THEN Return(JStr(<<v.chars[1]>>)) ELSE Throw("IndexError")
    [] v.type = "dict" -> Throw("KeyError")
    [] OTHER -> Throw("TypeError")

\* DeepSeekClient(api_key): self.api_key = api_key or os.getenv(...); ValueError
\* if there is none
DeepSeekClientInit(api_key, env_key) ==
  IF api_key \/ env_key THEN Return(JNull) ELSE Throw("ValueError")

\* the status _make_request accepts
StatusOk == 200

\* the keys of prompts in extract_data_from_text
PromptNames == {"comprehensive", "entities", "sentiment", "keywords"}

\* prompts.get(extraction_type, prompts["comprehensive"])
prompt_for(extraction_type) ==
  IF extraction_type \in PromptNames THEN extraction_type ELSE "comprehensive"

\* _make_request, for what requests.post meets: a connection error, a
\* timeout, or a response with a status and a body that is JSON or not
_make_request(outcome) ==
  CASE outcome.kind = "connection_error" -> Throw("ConnectionError")
    [] outcome.kind = "timeout" -> Throw("Timeout")
    [] outcome.kind = "http" ->
         IF outcome.status # StatusOk THEN Throw("Exception")
         ELSE IF ~outcome.json THEN Throw("JSONDecodeError")
         ELSE Return(outcome.body)

\* s.strip().startswith(c)
StartsWith(chars, c) == Strip(chars) # <<>> /\ Head(Strip(chars)) = c

\* the message contents of the sample responses, with what json.loads makes of
\* them: {"entities": ["AI"]}; [{"chart": "bar"}]; ' {"a": 1}'; '{"entities": ['
ContentObject == <<123, 34, 101, 110, 116, 105, 116, 105, 101, 115, 34, 58, 32, 91, 34, 65, 73, 34, 93, 125>>
ContentList == <<91, 123, 34, 99, 104, 97, 114, 116, 34, 58, 32, 34, 98, 97, 114, 34, 125, 93>>
ContentPadded == <<32, 123, 34, 97, 34, 58, 32, 49, 125>>
ContentBroken == <<123, 34, 101, 110, 116, 105, 116, 105, 101, 115, 34, 58, 32, 91>>

json_loads(chars) ==
  CASE chars = ContentObject ->
         Return(JDict(<< <<KeyEntities, JList(<<JStr(<<65, 73>>)>>)>> >>))
    [] chars = ContentList ->
         Return(JList(<<JDict(<< <<<<99, 104, 97, 114, 116>>, JStr(<<98, 97, 114>>)>> >>)>>))
    [] chars = ContentPadded -> Return(JDict(<< <<<<97>>, JInt(1)>> >>))
    [] OTHER -> Throw("JSONDecodeError")

\* a subscript on the outcome of the expression before it
ItemOf(outcome, key) == IF outcome.raised THEN outcome ELSE GetItem(outcome.value, key)
FirstOf(outcome) == IF outcome.raised THEN outcome ELSE GetFirst(outcome.value)

\* response['choices'][0]['message']['content']
message_content(response) ==
  ItemOf(ItemOf(FirstOf(GetItem(response, KeyChoices)), KeyMessage), KeyContent)

\* the mapping returned for a KeyError or a json.JSONDecodeError
ParseFailure(response, exc) ==
  Return(JDict(<< <<KeyErrorField, Message(exc)>>, <<KeyRawResponse, response>> >>))

\* json.loads(content) inside the try block
loads_or_failure(response, loaded) ==
  IF loaded.raised THEN ParseFailure(response, "JSONDecodeError") ELSE loaded

\* _parse_response: KeyError and json.JSONDecodeError are answered with an
\* error mapping, every other exception leaves the function
parse_content(response, content) ==
  IF content.raised
    THEN IF content.exc = "KeyError" THEN ParseFailure(response, "KeyError") ELSE content
  ELSE IF content.value.type # "str" THEN Throw("AttributeError")
  ELSE IF StartsWith(content.value.chars, 123) \/ StartsWith(content.value.chars, 91)
    THEN loads_or_failure(response, json_loads(content.value.chars))
  ELSE Return(JDict(<< <<KeyContent, content.value>> >>))

_parse_response(response) == parse_content(response, message_content(response))

\* the try block of extract_data_from_text and generate_visualization_suggestions
parse_if_made(made) == IF made.raised THEN made ELSE _parse_response(made.value)

request_and_parse(outcome) == parse_if_made(_make_request(outcome))

\* {"error": str(e)}
ErrorMapping(exc) == JDict(<< <<KeyErrorField, Message(exc)>> >>)

\* except Exception as e: return {"error": str(e)}
error_if_raised_reraised(outcome) == outcome

error_if_raised(outcome) ==
  IF outcome.raised THEN Return(ErrorMapping(outcome.exc)) ELSE outcome

\* except Exception as e: return [{"error": str(e)}]
error_list_if_raised(outcome) ==
  IF outcome.raised THEN Return(JList(<<ErrorMapping(outcome.exc)>>)) ELSE outcome

\* extract_data_from_text, for what its request meets: every exception of the
\* try block is answered with an error mapping
extract_data_from_text_uncaught(outcome) == request_and_parse(outcome)

extract_data_from_text(outcome) == error_if_raised(request_and_parse(outcome))

\* generate_visualization_suggestions, for what its request meets
generate_visualization_suggestions(outcome) ==
  error_list_if_raised(request_and_parse(outcome))

(***************************************************************************)
(* DataVisualizerEN (src/visualizer_en.py) and DataVisualizer              *)
(* (src/visualizer.py).  A renderer draws with matplotlib, wordcloud or    *)
(* plotly and saves one file; whether the library call succeeds is the     *)
(* environment's choice, given as the set `failing` of the chart types     *)
(* whose drawing raises.  The file a renderer saves is named by its prefix *)
(* and datetime.now() to the second, in the one output directory.          *)
(***************************************************************************)
ChartTypesEN ==
  << "word_cloud", "keyword_frequency", "entity_distribution",
     "sentiment_analysis", "data_summary" >>

ChartTypes == ChartTypesEN \o << "interactive_dashboard" >>

\* f"{prefix}_{datetime.now().strftime('%Y%m%d_%H%M%S')}.png"
SavePath(kind, second) == [kind |-> kind, second |-> second]

Render(kind, failing, second) ==
  IF kind \in failing THEN Throw("Exception")
  ELSE Return(SavePath(kind, second))

\* a step of generate_all_visualizations: the chart type and how its call ended
Step(kind, result) == [kind |-> kind, result |-> result]

\* DataVisualizerEN.create_keyword_frequency_chart
top_n == 20

create_keyword_frequency_chart_en(keywords, failing, second) ==
  LET top_keywords == Take(keywords, top_n)
  IN  IF top_keywords = <<>> THEN Throw("ValueError")
      ELSE Render("keyword_frequency", failing, second)

\* the calls DataVisualizerEN.generate_all_visualizations makes when none raises
steps_en(data_summary, words, failing, second) ==
  (IF Join(words) # <<>>
     THEN << Step("word_cloud", Render("word_cloud", failing, second)) >>
     ELSE <<>>)
  \o (IF "top_keywords" \in DOMAIN data_summary
        THEN << Step("keyword_frequency",
                     create_keyword_frequency_chart_en(
                       data_summary.top_keywords, failing, second)) >>
        ELSE <<>>)
  \o (IF "entities" \in DOMAIN data_summary
        THEN << Step("entity_distribution",
                     Render("entity_distribution", failing, second)) >>
        ELSE <<>>)
  \o (IF "sentiment" \in DOMAIN data_summary
        THEN << Step("sentiment_analysis",
                     Render("sentiment_analysis", failing, second)) >>
        ELSE <<>>)
  \o << Step("data_summary", Render("data_summary", failing, second)) >>

\* the position of the first step that raises, Len + 1 if none does
FirstRaise(steps) ==
  LET raising == {i \in 1..Len(steps) : steps[i].result.raised}
  IN  IF raising = {} THEN Len(steps) + 1
      ELSE CHOOSE i \in raising : \A j \in raising : i <= j

\* one try block around all the calls: the first exception ends them
attempted_en_isolated(steps) == steps

attempted_en(steps) == Take(steps, FirstRaise(steps))

\* the visualizations dict: chart type -> path, for the calls that returned a path
PathsOf(attempted) ==
  LET made == {i \in 1..Len(attempted) :
                 /\ ~attempted[i].result.raised
                 /\ attempted[i].result.value # JNull}
  IN  [kind \in {attempted[i].kind : i \in made} |->
         (CHOOSE i \in made : attempted[i].kind = kind) ]

Visualizations(attempted) ==
  LET at == PathsOf(attempted)
  IN  [kind \in DOMAIN at |-> attempted[at[kind]].result.value]

\* what the call returns, with the chart types whose renderer it called
Outcome(attempted) ==
  [ visualizations |-> Visualizations(attempted),
    attempted |-> {attempted[i].kind : i \in 1..Len(attempted)} ]

generate_all_visualizations_en(data_summary, words, failing, second) ==
  Outcome(attempted_en(steps_en(data_summary, words, failing, second)))


\* DataVisualizer's renderers return None, saving nothing, for data they
\* find empty
create_keyword_frequency_chart(keywords, failing, second) ==
  IF keywords = <<>> THEN Return(JNull)
  ELSE Render("keyword_frequency", failing, second)

create_entity_distribution_chart(entities, failing, second) ==
  IF \A k \in DOMAIN entities : entities[k] = <<>> THEN Return(JNull)
  ELSE Render("entity_distribution", failing, second)

create_sentiment_analysis_chart(sentiment, failing, second) ==
  LET neutral_count == sentiment.total_sentiment_words
                         - sentiment.positive_count - sentiment.negative_count
  IN
  IF sentiment.positive_count + sentiment.negative_count
       + (IF neutral_count > 0 THEN neutral_count ELSE 0) = 0
    THEN Return(JNull)
  ELSE Render("sentiment_analysis", failing, second)

\* DataVisualizer.generate_all_visualizations: each call in a try of its own
steps_zh(data_summary, words, failing, second) ==
  (IF Join(words) # <<>> /\ Strip(Join(words)) # <<>>
     THEN << Step("word_cloud", Render("word_cloud", failing, second)) >>
     ELSE <<>>)
  \o (IF "top_keywords" \in DOMAIN data_summary
          /\ data_summary.top_keywords # <<>>
        THEN << Step("keyword_frequency",
                     create_keyword_frequency_chart(
                       data_summary.top_keywords, failing, second)) >>
        ELSE <<>>)
  \o (IF "entities" \in DOMAIN data_summary
        THEN << Step("entity_distribution",
                     create_entity_distribution_chart(
                       data_summary.entities, failing, second)) >>
        ELSE <<>>)
  \o (IF "sentiment" \in DOMAIN data_summary
        THEN << Step("sentiment_analysis",
                     create_sentiment_analysis_chart(
                       data_summary.sentiment, failing, second)) >>
        ELSE <<>>)
  \o << Step("data_summary", Render("data_summary", failing, second)) >>
  \o << Step("interactive_dashboard",
             Render("interactive_dashboard", failing, second)) >>

generate_all_visualizations(data_summary, words, failing, second) ==
  Outcome(steps_zh(data_summary, words, failing, second))

(***************************************************************************)
(* InfoVizDemoEN (src/main_en.py).  A result is a Python dict with str     *)
(* keys: a function from its keys to their values.  processing_time, the   *)
(* wall clock as a string, is left out of it.                              *)
(***************************************************************************)
\* InfoVizDemoEN(api_key): the client is constructed first, whatever the
\* application is used for
InfoVizDemoENInit(api_key, env_key) == DeepSeekClientInit(api_key, env_key)

\* the try block of process_text around the two provider calls
provider_fields(deepseek_data, viz_suggestions) ==
  IF deepseek_data.raised
    THEN "deepseek_error" :> Message(deepseek_data.exc)
  ELSE IF viz_suggestions.raised
    THEN ("deepseek_analysis" :> deepseek_data.value)
           @@ ("deepseek_error" :> Message(viz_suggestions.exc))
  ELSE ("deepseek_analysis" :> deepseek_data.value)
         @@ ("visualization_suggestions" :> viz_suggestions.value)

provider_part(extract, suggest) ==
  provider_fields(extract_data_from_text(extract),
                  generate_visualization_suggestions(suggest))

\* the requests the try block of process_text has the client send, in order:
\* generate_visualization_suggestions is called with whatever
\* extract_data_from_text returned
provider_requests(use_deepseek, deepseek_data) ==
  IF ~use_deepseek THEN <<>>
  ELSE IF deepseek_data.raised THEN <<"extract_data_from_text">>
  ELSE <<"extract_data_from_text", "generate_visualization_suggestions">>

\* process_text, from the summary its first step made (local_summary =
\* self.text_processor.create_data_summary(text)) to the result it returns
process_text(local_summary, words, use_deepseek, extract, suggest, failing, second) ==
  LET result == [ input_text |-> words,
                  local_analysis |-> local_summary,
                  deepseek_analysis |-> JNull,
                  visualizations |-> <<>> ]
      visualizations ==
        generate_all_visualizations_en(local_summary, words, failing, second).visualizations
  IN  ("visualizations" :> visualizations)
        @@ (IF use_deepseek THEN provider_part(extract, suggest) ELSE <<>>)
        @@ result

\* _save_results: analysis_result_<second>.json in the output directory
ResultPath(second) == SavePath("analysis_result", second)

\* open(file_path, 'r', encoding='utf-8') and f.read()
open_and_read(file) ==
  CASE file.state = "missing" -> Throw("FileNotFoundError")
    [] file.state = "unreadable" -> Throw("PermissionError")
    [] file.state = "directory" -> Throw("IsADirectoryError")
    [] file.state = "not_utf8" -> Throw("UnicodeDecodeError")
    [] file.state = "text" -> Return(file.words)

process_file(file, local_summary, use_deepseek, extract, suggest, failing, second) ==
  IF open_and_read(file).raised
    THEN "error" :> Message(open_and_read(file).exc)
  ELSE process_text(local_summary, open_and_read(file).value, use_deepseek, extract,
                    suggest, failing, second)

\* result[key]
Field(result, key) ==
  IF key \in DOMAIN result THEN Return(result[key]) ELSE Throw("KeyError")

\* 'local_analysis' in result
has_local_analysis_assumed(result) == TRUE

has_local_analysis(result) == "local_analysis" \in DOMAIN result

\* print_summary: the sections it prints, or the exception that ends it
print_summary(result) ==
  LET local == IF has_local_analysis(result) THEN Field(result, "local_analysis")
               ELSE Return(JNull)
      files == IF "visualizations" \in DOMAIN result
                 THEN Field(result, "visualizations")
               ELSE Return(JNull)
  IN  IF local.raised THEN local
      ELSE IF files.raised THEN files
      ELSE Return({"local_analysis" : k \in {1} \cap {IF has_local_analysis(result) THEN 1 ELSE 0}}
                  \cup {"visualizations" : k \in {1} \cap {IF "visualizations" \in DOMAIN result THEN 1 ELSE 0}})

\* a str argument that is JSON, with the value json.loads returns for it
JsonText(v) == [kind |-> "text", json |-> TRUE, chars |-> <<>>, value |-> v]
\* a str argument that is not JSON
BadText(chars) == [kind |-> "text", json |-> FALSE, chars |-> chars, value |-> JNull]
\* an argument that is not a str
Object(v) == [kind |-> "object", json |-> FALSE, chars |-> <<>>, value |-> v]

(***************************************************************************)
(* ContentExtractionTool (src/tools.py).                                   *)
(* Its argument is any Python value; a text is the tuple of its code       *)
(* points.  The analysis_timestamp of a result is the wall clock; it is    *)
(* left out.                                                               *)
(***************************************************************************)
\* regex [A-Z], [a-z], [一-鿿], [\d,]
IsUpper(c) == Ord(c) >= 65 /\ Ord(c) <= 90
IsLower(c) == Ord(c) >= 97 /\ Ord(c) <= 122
IsCjk(c) == Ord(c) >= 19968 /\ Ord(c) <= 40959
IsDigitOrComma(c) == IsDigit(c) \/ Ord(c) = 44

InClass(class, c) ==
  CASE class = "upper" -> IsUpper(c)
    [] class = "lower" -> IsLower(c)
    [] class = "cjk" -> IsCjk(c)
    [] class = "digit" -> IsDigit(c)
    [] class = "digit_comma" -> IsDigitOrComma(c)
    [] class = "space" -> IsSpace(c)

\* the position after the run of characters of a class that starts at i
RECURSIVE RunEnd(_, _, _)
RunEnd(class, s, i) ==
  IF i <= Len(s) /\ InClass(class, s[i]) THEN RunEnd(class, s, i + 1) ELSE i

\* s[i] exists and is one of the characters
CharIn(s, i, chars) == i >= 1 /\ i <= Len(s) /\ s[i] \in chars

\* [A-Z][a-z]+ at i: the position after it, 0 if it does not match
CapitalEnd(s, i) ==
  IF i <= Len(s) /\ IsUpper(s[i]) /\ RunEnd("lower", s, i + 1) > i + 1
    THEN RunEnd("lower", s, i + 1)
  ELSE 0

\* (?:\s+[A-Z][a-z]+)* after a word that ends before e
RECURSIVE MoreCapitalsEnd(_, _)
MoreCapitalsEnd(s, e) ==
  LET k == RunEnd("space", s, e)
  IN  IF k > e /\ CapitalEnd(s, k) # 0 THEN MoreCapitalsEnd(s, CapitalEnd(s, k)) ELSE e

\* r'[A-Z][a-z]+(?:\s+[A-Z][a-z]+)*'
CapitalizedEnd(s, i) ==
  IF CapitalEnd(s, i) = 0 THEN 0 ELSE MoreCapitalsEnd(s, CapitalEnd(s, i))

\* r'[一-鿿]+'
CjkEnd(s, i) == IF i <= Len(s) /\ IsCjk(s[i]) THEN RunEnd("cjk", s, i) ELSE 0

\* r'\b[A-Z]{2,}\b'
AcronymEnd(s, i) ==
  IF ~(i <= Len(s) /\ IsUpper(s[i])) THEN 0
  ELSE IF i > 1 /\ IsWordChar(s[i - 1]) THEN 0
  ELSE LET e == RunEnd("upper", s, i)
       IN  IF e - i >= 2 /\ (e > Len(s) \/ ~IsWordChar(s[e])) THEN e ELSE 0

\* [\d,]+\.?\d* at i: the position after it, 0 if it does not match
NumeralEnd(s, i) ==
  IF ~(i <= Len(s) /\ IsDigitOrComma(s[i])) THEN 0
  ELSE LET a == RunEnd("digit_comma", s, i)
       IN  RunEnd("digit", s, IF CharAt(s, a, 46) THEN a + 1 ELSE a)

\* the position after \s* matched at b
SpacesEnd(s, b) == RunEnd("space", s, b)

\* 万 亿; 美 元
MagnitudeChars == { 19975, 20159 }
CurrencyChars == { 32654, 20803 }

\* r'[\d,]+\.?\d*\s*[万亿亿]?[美元元]?'
AmountEnd(s, i) ==
  IF NumeralEnd(s, i) = 0 THEN 0
  ELSE LET c == SpacesEnd(s, NumeralEnd(s, i))
           u == IF CharIn(s, c, MagnitudeChars) THEN c + 1 ELSE c
       IN  IF CharIn(s, u, CurrencyChars) THEN u + 1 ELSE u

\* r'[\d,]+\.?\d*\s*%'
PercentEnd(s, i) ==
  IF NumeralEnd(s, i) = 0 THEN 0
  ELSE IF CharAt(s, SpacesEnd(s, NumeralEnd(s, i)), 37)
    THEN SpacesEnd(s, NumeralEnd(s, i)) + 1
  ELSE 0

\* r'[\d,]+\.?\d*\s*[万亿]'
MagnitudeEnd(s, i) ==
  IF NumeralEnd(s, i) = 0 THEN 0
  ELSE IF CharIn(s, SpacesEnd(s, NumeralEnd(s, i)), MagnitudeChars)
    THEN SpacesEnd(s, NumeralEnd(s, i)) + 1
  ELSE 0

\* the position after the match of a pattern of the tool that starts at i, 0
\* if the pattern does not match at i
ToolMatchEnd(pattern, s, i) ==
  CASE pattern = "capitalized" -> CapitalizedEnd(s, i)
    [] pattern = "cjk" -> CjkEnd(s, i)
    [] pattern = "acronym" -> AcronymEnd(s, i)
    [] pattern = "amount" -> AmountEnd(s, i)
    [] pattern = "percentage" -> PercentEnd(s, i)
    [] pattern = "magnitude" -> MagnitudeEnd(s, i)
    [] pattern = "number" -> NumeralEnd(s, i)

\* re.findall(pattern, text) from position i on
RECURSIVE ToolFindAllFrom(_, _, _)
ToolFindAllFrom(pattern, s, i) ==
  IF i > Len(s) THEN <<>>
  ELSE IF ToolMatchEnd(pattern, s, i) = 0 THEN ToolFindAllFrom(pattern, s, i + 1)
  ELSE <<SubSeq(s, i, ToolMatchEnd(pattern, s, i) - 1)>>
         \o ToolFindAllFrom(pattern, s, ToolMatchEnd(pattern, s, i))

ToolFindAll(pattern, s) == ToolFindAllFrom(pattern, s, 1)

\* the patterns of _extract_entities, in order
entity_patterns == <<"capitalized", "cjk", "acronym">>

\* the n of entities[:10]
EntityLimit == 10

\* the loop body of _extract_entities, for the matches of one pattern
RECURSIVE AppendEntities(_, _)
AppendEntities(entities, matches) ==
  IF matches = <<>> THEN entities
  ELSE AppendEntities(IF Len(Strip(Head(matches))) > 1 /\ Head(matches) \notin Range(entities)
                        THEN Append(entities, Strip(Head(matches)))
                      ELSE entities,
                      Tail(matches))

\* entities after the first n patterns
RECURSIVE EntitiesAfter(_, _)
EntitiesAfter(s, n) ==
  IF n = 0 THEN <<>>
  ELSE AppendEntities(EntitiesAfter(s, n - 1), ToolFindAll(entity_patterns[n], s))

_extract_entities(s) == Take(EntitiesAfter(s, Len(entity_patterns)), EntityLimit)

\* the patterns of _extract_metrics, in order
number_patterns == <<"amount", "percentage", "magnitude", "number">>

\* f"metric_{i+1}" for the match at index i (from 0): here n = i + 1
metric_key(n) == <<109, 101, 116, 114, 105, 99, 95>> \o Digits(n)

\* d[key] = value on the pairs of a dict: a key that is there keeps its place
SetItem(pairs, key, value) ==
  IF \E i \in 1..Len(pairs) : pairs[i][1] = key
    THEN [i \in 1..Len(pairs) |-> IF pairs[i][1] = key THEN <<key, value>> ELSE pairs[i]]
  ELSE Append(pairs, <<key, value>>)

\* for i, match in enumerate(matches): metrics[key] = match.strip(), from the
\* n-th match on
RECURSIVE WriteMatches(_, _, _)
WriteMatches(pairs, matches, n) ==
  IF n > Len(matches) THEN pairs
  ELSE WriteMatches(SetItem(pairs, metric_key(n), JStr(Strip(matches[n]))), matches, n + 1)

\* metrics after the first n patterns
RECURSIVE MetricsAfter(_, _)
MetricsAfter(s, n) ==
  IF n = 0 THEN <<>>
  ELSE WriteMatches(MetricsAfter(s, n - 1), ToolFindAll(number_patterns[n], s), 1)

_extract_metrics(s) == JDict(MetricsAfter(s, Len(number_patterns)))

\* category_keywords, in dict order: 经济指标, 金融数据, 市场分析, 政策影响, 历史比较
category_keywords ==
  << [ category |-> <<32463, 27982, 25351, 26631>>,
       keywords |-> { <<32463, 27982>>, <<71, 68, 80>>, <<22686, 38271>>, <<19979, 38477>>, <<25351, 26631>>, <<25968, 25454>> } ],
     [ category |-> <<37329, 34701, 25968, 25454>>,
       keywords |-> { <<37329, 34701>>, <<38134, 34892>>, <<36135, 24065>>, <<21033, 29575>>, <<27719, 29575>>, <<25237, 36164>> } ],
     [ category |-> <<24066, 22330, 20998, 26512>>,
       keywords |-> { <<24066, 22330>>, <<20215, 26684>>, <<20132, 26131>>, <<20080, 21334>>, <<36235, 21183>> } ],
     [ category |-> <<25919, 31574, 24433, 21709>>,
       keywords |-> { <<25919, 31574>>, <<27861, 35268>>, <<35268, 23450>>, <<24433, 21709>>, <<25514, 26045>> } ],
     [ category |-> <<21382, 21490, 27604, 36739>>,
       keywords |-> { <<21382, 21490>>, <<36807, 21435>>, <<26366, 32463>>, <<26368, 39640>>, <<26368, 20302>>, <<21019>> } ] >>

\* any(keyword in text for keyword in keywords)
AnyKeywordIn(keywords, s) == \E keyword \in keywords : IsSubstring(keyword, s)

_extract_categories(s) ==
  LET found == SelectSeq(category_keywords, LAMBDA entry : AnyKeywordIn(entry.keywords, s))
  IN  [i \in 1..Len(found) |-> found[i].category]

\* re.split(pattern, text) for a pattern that is a set of separators: the
\* fragments between one separator and the next
SplitAt(separators, s) ==
  LET cuts == {i \in 1..Len(s) : s[i] \in separators}
      Cut(k) == IF k = 0 THEN 0
                ELSE IF k = Cardinality(cuts) + 1 THEN Len(s) + 1
                ELSE CHOOSE p \in cuts : Cardinality({q \in cuts : q < p}) = k - 1
  IN  [k \in 1..(Cardinality(cuts) + 1) |-> SubSeq(s, Cut(k - 1) + 1, Cut(k) - 1)]

\* regex [。！？\n]
ArgumentSeparators == {12290, 65281, 65311, 10}

\* 因为 所以 导致 影响 结果 原因
argument_keywords ==
  { <<22240, 20026>>, <<25152, 20197>>, <<23548, 33268>>, <<24433, 21709>>, <<32467, 26524>>, <<21407, 22240>> }

\* the n of arguments[:5]
ArgumentLimit == 5

\* len(sentence) > 20 and len(sentence) < 200, and a keyword in the sentence
IsArgument(sentence) ==
  /\ Len(sentence) > 20
  /\ Len(sentence) < 200
  /\ AnyKeywordIn(argument_keywords, sentence)

_extract_arguments(s) ==
  LET sentences == SplitAt(ArgumentSeparators, s)
      stripped == [i \in 1..Len(sentences) |-> Strip(sentences[i])]
  IN  Take(SelectSeq(stripped, IsArgument), ArgumentLimit)

\* len([line for line in text.split('\n') if line.strip()])
line_count(s) ==
  LET lines == SplitAt({10}, s)
  IN  Cardinality({i \in 1..Len(lines) : Strip(lines[i]) # <<>>})

\* 'text_statistics', 'word_count', 'char_count', 'line_count', 'status',
\* 'fallback'
KeyTextStatistics == <<116, 101, 120, 116, 95, 115, 116, 97, 116, 105, 115, 116, 105, 99, 115>>
KeyWordCount == <<119, 111, 114, 100, 95, 99, 111, 117, 110, 116>>
KeyCharCount == <<99, 104, 97, 114, 95, 99, 111, 117, 110, 116>>
KeyLineCount == <<108, 105, 110, 101, 95, 99, 111, 117, 110, 116>>
KeyStatus == <<115, 116, 97, 116, 117, 115>>
StrFallback == <<102, 97, 108, 108, 98, 97, 99, 107>>

StringList(strings) == JList([i \in 1..Len(strings) |-> JStr(strings[i])])

\* the dict of a result, from its parts
AnalysisResult(word_count, char_count, lines, entities, metrics, categories, core_arguments) ==
  << <<KeyTextStatistics,
       JDict(<< <<KeyWordCount, JInt(word_count)>>, <<KeyCharCount, JInt(char_count)>>,
                <<KeyLineCount, JInt(lines)>> >>)>>,
     <<KeyEntities, entities>>,
     <<KeyMetrics, metrics>>,
     <<KeyCategories, categories>>,
     <<KeyCoreArguments, core_arguments>> >>

_analyze_content(s) ==
  JDict(AnalysisResult(SplitCount(s), Len(s), line_count(s),
                       StringList(_extract_entities(s)), _extract_metrics(s),
                       StringList(_extract_categories(s)), StringList(_extract_arguments(s))))

\* _validate_analysis_result: all(key in result for key in required_keys)
_validate_analysis_result(result) ==
  \A k \in 1..Len(required_keys) : HasKey(result, required_keys[k])

\* _create_fallback_response: 数据提取失败; error: 无法提取有效指标; 数据异常;
\* 内容分析遇到问题，请检查输入数据
_create_fallback_response ==
  JDict(AnalysisResult(0, 0, 0,
                       StringList(<< <<25968, 25454, 25552, 21462, 22833, 36133>> >>),
                       JDict(<< <<KeyErrorField, JStr(<<26080, 27861, 25552, 21462, 26377, 25928, 25351, 26631>>)>> >>),
                       StringList(<< <<25968, 25454, 24322, 24120>> >>),
                       StringList(<< <<20869, 23481, 20998, 26512, 36935, 21040, 38382, 39064, 65292, 35831, 26816, 26597, 36755, 20837, 25968, 25454>> >>))
          \o << <<KeyStatus, JStr(StrFallback)>> >>)

\* the least length of a stripped text that is analysed
MinTextLength == 10

\* the analysis is returned unless it fails the validation
validated_or_fallback(analysis_result) ==
  IF ~_validate_analysis_result(analysis_result) THEN _create_fallback_response
  ELSE analysis_result

\* _run with the length test on the text as given, not stripped
ContentExtractionTool_run_unstripped(argument) ==
  IF ~Truthy(argument) \/ argument.type # "str" THEN JsonText(_create_fallback_response)
  ELSE IF Len(argument.chars) < MinTextLength
    THEN JsonText(_create_fallback_response)
  ELSE JsonText(validated_or_fallback(_analyze_content(argument.chars)))

\* ContentExtractionTool._run: the document it returns, as json.dumps writes
\* it.  No statement of the try block raises for a str.
ContentExtractionTool_run(argument) ==
  IF ~Truthy(argument) \/ argument.type # "str" THEN JsonText(_create_fallback_response)
  ELSE IF Len(Strip(argument.chars)) < MinTextLength
    THEN JsonText(_create_fallback_response)
  ELSE JsonText(validated_or_fallback(_analyze_content(argument.chars)))

(***************************************************************************)
(* Input texts, each the sequence of words jieba.cut yields for it.        *)
(***************************************************************************)
\* pairwise distinct two-character words that are in no lexicon, are no stop
\* word and hold no entity suffix: 田由 甲申 甴电 甶男 ...
FillerWords ==
  << <<30000, 30001>>, <<30002, 30003>>, <<30004, 30005>>, <<30006, 30007>>,
     <<30008, 30009>>, <<30010, 30011>>, <<30012, 30013>>, <<30014, 30015>>,
     <<30016, 30017>>, <<30018, 30019>>, <<30020, 30021>>, <<30022, 30023>>,
     <<30024, 30025>>, <<30026, 30027>>, <<30028, 30029>>, <<30030, 30031>>,
     <<30032, 30033>>, <<30034, 30035>>, <<30036, 30037>>, <<30038, 30039>>,
     <<30040, 30041>>, <<30042, 30043>>, <<30044, 30045>>, <<30046, 30047>> >>

\* 优秀 (positive), 好 (positive and a stop word), 下降 (negative),
\* 。 (ends a sentence), 25% (a number and a percentage), 公司 (an organization
\* suffix), 田由 (a plain word)
Vocabulary ==
  { <<20248, 31168>>, <<22909>>, <<19979, 38477>>, <<12290>>, <<50, 53, 37>>,
    <<20844, 21496>>, <<30000, 30001>> }

\* all sequences over a set of words of length at most n
RECURSIVE SeqsUpTo(_, _)
SeqsUpTo(set, n) ==
  IF n = 0 THEN {<<>>}
  ELSE LET shorter == SeqsUpTo(set, n - 1)
       IN  shorter \cup {Append(q, w) : q \in shorter, w \in set}

\* n times the word w
Repeat(w, n) == [i \in 1..n |-> w]

FreeTexts == SeqsUpTo(Vocabulary, MaxWords)

\* the first m filler words, for the m next to the keyword limit, alone or with
\* the last of them said again
LongTexts ==
  UNION {{SubSeq(FillerWords, 1, m), Append(SubSeq(FillerWords, 1, m), FillerWords[m])} :
           m \in (MaxFill - 2)..MaxFill}

\* a times 好 then b times 差, the two counts at most 2 apart: the scores next
\* to the thresholds
SentimentTexts ==
  {Repeat(<<22909>>, c[1]) \o Repeat(<<24046>>, c[2]) :
     c \in {d \in (0..(MaxRepeat + 2)) \X (0..MaxRepeat) : d[1] - d[2] \in (-2)..2}}

\* texts with mentions the patterns are for: 营收 5000 万 增长 25% 。;
\* 1.2.3%; 2024-01-15; $1,000.50; 12.5%; a@b.cn; 13812345678; http://a.b
PatternTexts ==
  { << <<33829, 25910>>, <<53, 48, 48, 48>>, <<19975>>, <<22686, 38271>>, <<50, 53, 37>>,
       <<12290>> >>,
    << <<49, 46, 50>>, <<46>>, <<51, 37>> >>,
    << <<50, 48, 50, 52>>, <<45>>, <<48, 49>>, <<45>>, <<49, 53>> >>,
    << <<36>>, <<49>>, <<44>>, <<48, 48, 48, 46, 53, 48>> >>,
    << <<49, 50, 46, 53, 37>> >>,
    << <<97>>, <<64>>, <<98>>, <<46>>, <<99, 110>> >>,
    << <<49, 51, 56, 49, 50, 51, 52, 53, 54, 55, 56>> >>,
    << <<104, 116, 116, 112>>, <<58>>, <<47>>, <<47>>, <<97>>, <<46>>, <<98>> >> }

Texts == FreeTexts \cup LongTexts \cup SentimentTexts \cup PatternTexts

\* the texts of the calls made between two calls on the text under analysis:
\* the empty text and 优秀的自己公司优秀。 (自己 is a stop word)
OtherTexts ==
  {<<>>, << <<20248, 31168>>, <<30340>>, <<33258, 24049>>, <<20844, 21496>>,
            <<20248, 31168>>, <<12290>> >>}

Processors == 1..MaxProcessors

\* no caller of VisualizationTool._run; no result yet
NoPayload == [kind |-> "none"]
NoOutput == [visualizations |-> <<>>, total_items |-> 0]

NoCall == [op |-> "none", self |-> 0, words |-> <<>>]
Nothing == [raised |-> FALSE]
NoSummary == [by |-> 0, summary |-> Nothing]

\* no application under construction, nothing on disk, no call to make
NotPrinted == [run |-> 0, outcome |-> Nothing]
NotRunning == [stage |-> "idle", summary |-> Nothing]

DemoIdle ==
  /\ env_api_key = FALSE
  /\ app = [api_key |-> FALSE, state |-> "none"]
  /\ now = 0
  /\ disk = <<>>
  /\ pending = <<>>
  /\ running = NotRunning
  /\ reports = <<>>
  /\ printed = NotPrinted

\* main() is not running
MainIdle ==
  /\ crew_result = [kind |-> "none"]
  /\ main_state = [at |-> "idle"]

\* no tool was called
ToolsIdle ==
  /\ tool_text = JNull
  /\ extracted = NoPayload
  /\ structuring_argument = NoPayload
  /\ structured = NoPayload
  /\ authenticity = Nothing

InitText ==
  /\ jieba_initialized = FALSE
  /\ self_patterns = [p \in Processors |-> <<>>]
  /\ text \in Texts
  /\ call = NoCall
  /\ returned = Nothing
  /\ first_summary = NoSummary
  /\ others_since = FALSE
  /\ viz_input = NoPayload
  /\ viz_output = NoOutput
  /\ DemoIdle
  /\ MainIdle
  /\ ToolsIdle

Constructed(p) == self_patterns[p] # <<>>

\* TextProcessor(): jieba.initialize() and self.patterns = {...}
TextProcessorInit(p) ==
  /\ ~Constructed(p)
  /\ jieba_initialized' = TRUE
  /\ self_patterns' = [self_patterns EXCEPT ![p] = patterns]
  /\ UNCHANGED <<text, call, returned, first_summary, others_since, vizVars, appVars>>

\* processor.analyze_sentiment(text)
AnalyzeSentiment(p, words) ==
  /\ Constructed(p)
  /\ call' = [op |-> "analyze_sentiment", self |-> p, words |-> words]
  /\ returned' = analyze_sentiment(words)
  /\ UNCHANGED <<jieba_initialized, self_patterns, text, first_summary, others_since, vizVars, appVars>>

\* processor.create_data_summary(text)
CreateDataSummary(p, words) ==
  /\ Constructed(p)
  /\ call' = [op |-> "create_data_summary", self |-> p, words |-> words]
  /\ returned' = create_data_summary(self_patterns[p], words)
  /\ first_summary' =
       IF words = text /\ first_summary = NoSummary
         THEN [by |-> p, summary |-> returned']
       ELSE first_summary
  /\ others_since' = (others_since \/ (words # text /\ first_summary # NoSummary))
  /\ UNCHANGED <<jieba_initialized, self_patterns, text, vizVars, appVars>>

NextText ==
  \/ \E p \in Processors : TextProcessorInit(p)
  \/ \E p \in Processors : AnalyzeSentiment(p, text)
  \/ \E p \in Processors, words \in {text} \cup OtherTexts : CreateDataSummary(p, words)

SpecText == InitText /\ [][NextText]_vars

(***************************************************************************)
(* Claims about TextProcessor.                                             *)
(***************************************************************************)
\* the sentiment result of the last call, of either operation
LastSentiment ==
  IF call.op = "create_data_summary" THEN returned.sentiment ELSE returned

\* C1: every sentiment result has total_sentiment_words = positive_count +
\* negative_count, and its label follows the thresholds on its score: positive
\* iff score > 0.1, negative iff score < -0.1, neutral otherwise; with no
\* sentiment word the score is 0 and the label neutral.
C1_SentimentConsistent ==
  call.op # "none" =>
    LET r == LastSentiment
        num == r.sentiment_score.num
        den == r.sentiment_score.den
    IN  /\ ~r.raised
        /\ den > 0
        /\ r.total_sentiment_words = r.positive_count + r.negative_count
        /\ (r.sentiment_label = LabelPositive) <=> (10 * num > den)
        /\ (r.sentiment_label = LabelNegative) <=> (10 * num < -den)
        /\ (r.sentiment_label = LabelNeutral) <=> (10 * num <= den /\ 10 * num >= -den)
        /\ r.total_sentiment_words = 0 => (num = 0 /\ r.sentiment_label = LabelNeutral)

\* a sentiment result whose score is exactly 0.1, labelled neutral
C1_Witness ==
  /\ call.op = "analyze_sentiment"
  /\ returned.total_sentiment_words > 0
  /\ 10 * returned.sentiment_score.num = returned.sentiment_score.den
  /\ returned.sentiment_label = LabelNeutral

\* the distinct tokens of the full filtered frequency table of a text
FullTable(words) == {w \in Range(words) : Len(w) > 1 /\ w \notin _get_stopwords}

\* C2: basic_stats.unique_words of every summary is the number of distinct
\* tokens of the full filtered frequency table of the text (tokens longer than
\* one character that are no stop words), not the size of the truncated list.
C2_UniqueWordsIsFullTable ==
  call.op = "create_data_summary" =>
    returned.basic_stats.unique_words = Cardinality(FullTable(call.words))

C9_EmptyText ==
  (call.op = "create_data_summary" /\ call.words = <<>>) =>
    /\ ~returned.raised
    /\ returned.basic_stats.text_length = 0
    /\ returned.sentiment.sentiment_label = LabelNeutral
    /\ returned.sentiment.sentiment_score.num = 0
    /\ \A k \in DOMAIN returned.data_extraction : returned.data_extraction[k] = 0
    /\ DOMAIN returned.data_extraction =
         {"numbers_found", "percentages_found", "dates_found", "money_found",
          "emails_found", "phones_found", "urls_found"}
    /\ returned.top_keywords = <<>>

\* the empty string has been summarised
C9_Witness ==
  /\ call.op = "create_data_summary"
  /\ call.words = <<>>
  /\ returned.basic_stats.text_length = 0

\* C10: with p positive and n negative tokens the score is (p - n) / (p + n)
\* when p + n > 0 and 0 otherwise, so it lies in [-1, 1]; p = 3 and n = 1 give
\* counts 3 and 1, total 4, score 0.5 and the positive label.
C10_ScoreFormula ==
  call.op = "analyze_sentiment" =>
    LET p == Cardinality({i \in 1..Len(call.words) : call.words[i] \in positive_words})
        n == Cardinality({i \in 1..Len(call.words) : call.words[i] \in negative_words})
        num == returned.sentiment_score.num
        den == returned.sentiment_score.den
    IN  /\ ~returned.raised
        /\ den > 0
        /\ IF p + n > 0 THEN num * (p + n) = (p - n) * den ELSE num = 0
        /\ num <= den
        /\ num >= -den
        /\ (p = 3 /\ n = 1) =>
             /\ returned.positive_count = 3
             /\ returned.negative_count = 1
             /\ returned.total_sentiment_words = 4
             /\ 2 * num = den
             /\ returned.sentiment_label = LabelPositive

\* a text with three positive and one negative token has been scored
C10_Witness ==
  /\ call.op = "analyze_sentiment"
  /\ returned.positive_count = 3
  /\ returned.negative_count = 1
  /\ Len(call.words) = 4
(***************************************************************************)
(* Claims about the keyword table.                                         *)
(***************************************************************************)
\* how often a token occurs in a token sequence
Occurrences(words, w) == Cardinality({i \in 1..Len(words) : words[i] = w})

\* the position of the first occurrence of a token
FirstOccurrence(words, w) ==
  CHOOSE i \in 1..Len(words) : words[i] = w /\ \A j \in 1..(i - 1) : words[j] # w

\* entry a comes before entry b in the keyword ordering: larger count first,
\* equal counts in first-occurrence order
RanksBefore(words, a, b) ==
  \/ Occurrences(words, a) > Occurrences(words, b)
  \/ /\ Occurrences(words, a) = Occurrences(words, b)
     /\ FirstOccurrence(words, a) < FirstOccurrence(words, b)

\* the keyword list is the first `limit` entries of the kept tokens of the
\* words, each with its count, in the keyword ordering
IsKeywordTable(words, keywords, limit) ==
  LET listed == {keywords[i][1] : i \in 1..Len(keywords)}
  IN  /\ \A i \in 1..Len(keywords) :
           /\ Len(keywords[i][1]) > 1
           /\ keywords[i][1] \notin _get_stopwords
           /\ keywords[i][2] = Occurrences(words, keywords[i][1])
           /\ keywords[i][2] >= 1
      /\ \A i, j \in 1..Len(keywords) :
           i < j => RanksBefore(words, keywords[i][1], keywords[j][1])
      /\ Len(keywords) = Min(limit, Cardinality(FullTable(words)))
      /\ \A w \in FullTable(words) \ listed :
           \A i \in 1..Len(keywords) : RanksBefore(words, keywords[i][1], w)

\* C19: the keyword table holds only tokens longer than one character that are
\* no stop words, each with its exact occurrence count, ordered by count
\* descending with ties in first-occurrence order; keywords is the first 20
\* entries of that ordering and top_keywords the first 10, a prefix of keywords.
C19_KeywordTable ==
  call.op = "create_data_summary" =>
    LET keywords == returned.extracted_data.keywords
    IN  /\ IsKeywordTable(call.words, keywords, KeywordLimit)
        /\ returned.top_keywords = Take(keywords, TopKeywordLimit)
        /\ Len(returned.top_keywords) = Min(TopKeywordLimit, Len(keywords))

\* a text with more kept tokens than the table holds, whose most frequent
\* token occurs first after the second entry of the table
C19_Witness ==
  /\ call.op = "create_data_summary"
  /\ Cardinality(FullTable(call.words)) > KeywordLimit
  /\ Len(returned.extracted_data.keywords) = KeywordLimit
  /\ Len(returned.top_keywords) = TopKeywordLimit
  /\ returned.extracted_data.keywords[1][2] = 2
  /\ FirstOccurrence(call.words, returned.extracted_data.keywords[1][1])
       > FirstOccurrence(call.words, returned.extracted_data.keywords[2][1])

\* the positions of s at which the pattern matches
MatchStarts(pattern, s) == {i \in 1..Len(s) : MatchEnd(pattern, s, i) # 0}

\* the starts of the matches a scan from the left takes: a position where the
\* pattern matches is taken exactly if no match taken before it reaches it
ScanStarts(pattern, s) ==
  CHOOSE taken \in SUBSET MatchStarts(pattern, s) :
    \A i \in MatchStarts(pattern, s) :
      i \in taken <=> \A j \in taken : j < i => MatchEnd(pattern, s, j) <= i

\* the count data_extraction holds for a pattern
FoundOf(data_extraction, pattern) ==
  CASE pattern = "numbers" -> data_extraction.numbers_found
    [] pattern = "percentages" -> data_extraction.percentages_found
    [] pattern = "dates" -> data_extraction.dates_found
    [] pattern = "money" -> data_extraction.money_found
    [] pattern = "emails" -> data_extraction.emails_found
    [] pattern = "phones" -> data_extraction.phones_found
    [] pattern = "urls" -> data_extraction.urls_found

\* the words 5000 and 25%
Mention5000 == <<53, 48, 48, 48>>
Mention25Percent == <<50, 53, 37>>

\* C22: in the summary of every text, each of the seven data_extraction counts
\* is the number of matches of its pattern taken left to right without
\* overlap, 0 when the pattern matches nowhere (the call does not fail);
\* numbers_found >= percentages_found; and a text that mentions 5000 and 25%
\* has numbers_found >= 2 and percentages_found >= 1.
C22_PatternCounts ==
  call.op = "create_data_summary" =>
    LET s == Join(call.words)
        found == returned.data_extraction
    IN  /\ ~returned.raised
        /\ \A n \in 1..Len(patterns) :
             /\ FoundOf(found, patterns[n]) = Cardinality(ScanStarts(patterns[n], s))
             /\ MatchStarts(patterns[n], s) = {} => FoundOf(found, patterns[n]) = 0
        /\ found.numbers_found >= found.percentages_found
        /\ ({Mention5000, Mention25Percent} \subseteq Range(call.words)) =>
             /\ found.numbers_found >= 2
             /\ found.percentages_found >= 1

\* the summary of 营收 5000 万 增长 25% 。
C22_Witness ==
  /\ call.op = "create_data_summary"
  /\ {Mention5000, Mention25Percent} \subseteq Range(call.words)
  /\ returned.data_extraction.numbers_found = 2
  /\ returned.data_extraction.percentages_found = 1
  /\ returned.data_extraction.dates_found = 0

(***************************************************************************)
(* Visualization payloads.                                                 *)
(***************************************************************************)
\* AI, 百度公司, 人工智能技术研究院, 北京, 清华大学, 阿里巴巴集团, 深度学习, 张三
EntityTable ==
  << <<65, 73>>, <<30334, 24230, 20844, 21496>>,
     <<20154, 24037, 26234, 33021, 25216, 26415, 30740, 31350, 38498>>,
     <<21271, 20140>>, <<28165, 21326, 22823, 23398>>,
     <<38463, 37324, 24052, 24052, 38598, 22242>>,
     <<28145, 24230, 23398, 20064>>, <<24352, 19977>> >>

\* 营收: 100, 增长率: "25%", 备注: "暂无", 版本: "1.2.3", 利润: "12.5",
\* 门店数: 320, 评分: "4.8分", 员工数: 1500
MetricTable ==
  << <<<<33829, 25910>>, JInt(100)>>,
     <<<<22686, 38271, 29575>>, JStr(<<50, 53, 37>>)>>,
     <<<<22791, 27880>>, JStr(<<26242, 26080>>)>>,
     <<<<29256, 26412>>, JStr(<<49, 46, 50, 46, 51>>)>>,
     <<<<21033, 28070>>, JStr(<<49, 50, 46, 53>>)>>,
     <<<<38376, 24215, 25968>>, JInt(320)>>,
     <<<<35780, 20998>>, JStr(<<52, 46, 56, 20998>>)>>,
     <<<<21592, 24037, 25968>>, JInt(1500)>> >>

\* 营收增长, 成本下降, 市场扩大, 技术领先, 用户增加, 风险可控
ArgumentTable ==
  << <<33829, 25910, 22686, 38271>>, <<25104, 26412, 19979, 38477>>,
     <<24066, 22330, 25193, 22823>>, <<25216, 26415, 39046, 20808>>,
     <<29992, 25143, 22686, 21152>>, <<39118, 38505, 21487, 25511>> >>

\* 'companies', 'name', 'financial_data', 'revenue', 'profit'
KeyCompanies == <<99, 111, 109, 112, 97, 110, 105, 101, 115>>
KeyName == <<110, 97, 109, 101>>
KeyFinancialData == <<102, 105, 110, 97, 110, 99, 105, 97, 108, 95, 100, 97, 116, 97>>
KeyRevenue == <<114, 101, 118, 101, 110, 117, 101>>
KeyProfit == <<112, 114, 111, 102, 105, 116>>

\* the figures of one company for '2022', '2023' and '2024'
Yearly(a, b, c) ==
  JDict(<< <<<<50, 48, 50, 50>>, JInt(a)>>, <<<<50, 48, 50, 51>>, JInt(b)>>,
           <<<<50, 48, 50, 52>>, JInt(c)>> >>)

Company(name, revenue, profit) ==
  JDict(<< <<KeyName, JStr(name)>>,
           <<KeyFinancialData, JDict(<< <<KeyRevenue, revenue>>, <<KeyProfit, profit>> >>)>> >>)

\* two companies (甲公司, 乙公司) with revenue and profit for 2022, 2023, 2024
TwoCompanies ==
  JList(<< Company(<<30002, 20844, 21496>>, Yearly(100, 120, 150), Yearly(10, 12, 18)),
           Company(<<20057, 20844, 21496>>, Yearly(80, 90, 95), Yearly(8, 7, 9)) >>)

\* the elements of s at the positions in idx, in order
RECURSIVE SubTable(_, _, _)
SubTable(s, idx, i) ==
  IF i > Len(s) THEN <<>>
  ELSE (IF i \in idx THEN <<s[i]>> ELSE <<>>) \o SubTable(s, idx, i + 1)

StrList(table, n) == JList([i \in 1..n |-> JStr(table[i])])

\* a payload with the four required sections, and `companies` or not
Payload(e, m, c, a, withCompanies) ==
  JDict(<< <<KeyEntities, e>>, <<KeyMetrics, m>>, <<KeyCategories, c>>, <<KeyCoreArguments, a>> >>
          \o (IF withCompanies THEN << <<KeyCompanies, TwoCompanies>> >> ELSE <<>>))

\* 科技
CategoryLists == {JList(<<>>), JList(<<JStr(<<31185, 25216>>)>>)}

EntityLists == {StrList(EntityTable, n) : n \in 0..Min(MaxEntities, Len(EntityTable))}
ArgumentLists == {StrList(ArgumentTable, n) : n \in 0..Min(MaxArguments, Len(ArgumentTable))}
MetricDicts ==
  {JDict(SubTable(MetricTable, idx, 1)) : idx \in SUBSET (1..Min(MaxMetrics, Len(MetricTable)))}

WellFormedPayloads ==
  {Payload(e, m, c, a, w) :
     e \in EntityLists, m \in MetricDicts, c \in CategoryLists, a \in ArgumentLists,
     w \in BOOLEAN}

\* sections of another type than the tool expects: entities 苹果公司 (a string),
\* entities 5, a list of numbers, metrics as a list, metrics as a string "100"
OddPayloads ==
  { Payload(JStr(<<33529, 26524, 20844, 21496>>), JDict(<<>>), JList(<<>>), JList(<<>>), FALSE),
    Payload(JInt(5), JDict(<<>>), JList(<<>>), JList(<<>>), FALSE),
    Payload(JList(<<JInt(2024), JNull>>), JDict(<<>>), JList(<<>>), JList(<<>>), FALSE),
    Payload(JList(<<>>), JList(<<JStr(<<33829, 25910>>)>>), JList(<<>>), JList(<<>>), FALSE),
    Payload(JList(<<>>), JStr(<<49, 48, 48>>), JList(<<>>), JList(<<>>), FALSE),
    Payload(JList(<<>>), JDict(<<>>), JList(<<>>), JStr(<<33829, 25910, 22686, 38271>>), FALSE) }

\* values that lack a required key or are no mapping: {}, a payload with
\* `companies` only, one without core_arguments, [], the list and the string
\* of the four key names, 42, null, ""
MalformedValues ==
  { JDict(<<>>),
    JDict(<< <<KeyCompanies, TwoCompanies>> >>),
    JDict(<< <<KeyEntities, StrList(EntityTable, 2)>>, <<KeyMetrics, JDict(<<>>)>>,
             <<KeyCategories, JList(<<>>)>> >>),
    JList(<<>>),
    JList(<<JStr(KeyEntities), JStr(KeyMetrics), JStr(KeyCategories), JStr(KeyCoreArguments)>>),
    JStr(KeyEntities \o KeyMetrics \o KeyCategories \o KeyCoreArguments),
    JInt(42),
    JNull,
    JStr(<<>>) }

\* metrics written the way reports write them: 用户数: "1,234", 利润: "12.5"
FormattedPayloads ==
  { Payload(JList(<<>>),
            JDict(<< <<<<29992, 25143, 25968>>, JStr(<<49, 44, 50, 51, 52>>)>> >>),
            JList(<<>>), JList(<<>>), FALSE),
    Payload(StrList(EntityTable, 1),
            JDict(<< <<<<21033, 28070>>, JStr(<<49, 50, 46, 53>>)>>,
                     <<<<29992, 25143, 25968>>, JStr(<<49, 44, 50, 51, 52>>)>> >>),
            JList(<<>>), JList(<<>>), FALSE) }

PayloadValues == WellFormedPayloads \cup OddPayloads \cup FormattedPayloads \cup MalformedValues

\* '', 'not json', '{"entities": ['
BadTexts ==
  { BadText(<<>>), BadText(<<110, 111, 116, 32, 106, 115, 111, 110>>),
    BadText(<<123, 34, 101, 110, 116, 105, 116, 105, 101, 115, 34, 58, 32, 91>>) }

Arguments ==
  {JsonText(v) : v \in PayloadValues} \cup {Object(v) : v \in PayloadValues} \cup BadTexts

(***************************************************************************)
(* VisualizationTool, its calls.                                           *)
(***************************************************************************)
InitViz ==
  /\ jieba_initialized = FALSE
  /\ self_patterns = [p \in Processors |-> <<>>]
  /\ text = <<>>
  /\ call = NoCall
  /\ returned = Nothing
  /\ first_summary = NoSummary
  /\ others_since = FALSE
  /\ viz_input \in Arguments
  /\ viz_output = NoOutput
  /\ DemoIdle
  /\ MainIdle
  /\ ToolsIdle

\* tool._run(structured_data)
VisualizationRun ==
  /\ viz_output' = _run(viz_input)
  /\ UNCHANGED <<textVars, viz_input, appVars>>

NextViz == VisualizationRun

SpecViz == InitViz /\ [][NextViz]_vars


(***************************************************************************)
(* Claims about VisualizationTool.                                         *)
(***************************************************************************)
\* _run has returned
VizReturned == viz_output # NoOutput

\* the argument is JSON text or an object: it carries a value
HasValue(argument) == argument.kind = "object" \/ (argument.kind = "text" /\ argument.json)

\* the items of a result
Items(out) == Range(out.visualizations)

ListItems(v) == IF v.type = "list" THEN Range(v.items) ELSE {}

DictKeys(v) == IF v.type = "dict" THEN {v.pairs[i][1] : i \in 1..Len(v.pairs)} ELSE {}

\* the data points of the payload that are the primary content of an item:
\* the entities and arguments a summary card lists, the metrics a metrics card
\* lists, the metrics a metrics chart plots
PrimaryPoints(item) ==
  CASE item.type = "card" /\ item.card_id = "summary" ->
         {<<"entity", e>> : e \in ListItems(item.content.entities)}
           \cup {<<"argument", a>> : a \in ListItems(item.content.arguments)}
    [] item.type = "card" /\ item.card_id = "metrics" ->
         {<<"metric", JStr(key)>> : key \in DictKeys(item.content.metrics)}
    [] item.type = "echarts" /\ item.chart_id = "metrics_analysis" ->
         {<<"metric", JStr(label)>> : label \in Range(item.config.labels)}
    [] OTHER -> {}

\* C4: in the item list one _run returns, no two items share a primary data
\* point: a data point that is the primary content of one item is not the
\* primary content of another item of the same result.
C4_NoSharedPrimaryPoint ==
  VizReturned =>
    \A i, j \in 1..Len(viz_output.visualizations) :
      i # j => PrimaryPoints(viz_output.visualizations[i])
                 \cap PrimaryPoints(viz_output.visualizations[j]) = {}

\* the payload supplies an explicit numeric value under the name of a plotted
\* category, in one of its sections
SuppliesWeight(v, name) ==
  /\ v.type = "dict"
  /\ \E i \in 1..Len(v.pairs) :
       LET section == v.pairs[i][2]
       IN  /\ section.type = "dict"
           /\ HasKey(section, name)
           /\ Lookup(section, name).type = "num"

IsProportionChart(item) ==
  item.type = "echarts" /\ item.config.series_type \in {"pie", "radar"}

\* C5: _run emits a pie (or radar) chart only if the payload supplies, for
\* every category plotted, an explicit numeric weight or proportion.
C5_PieOnlyWithWeights ==
  VizReturned =>
    \A item \in Items(viz_output) :
      IsProportionChart(item) =>
        /\ HasValue(viz_input)
        /\ \A k \in 1..Len(item.config.data) :
             SuppliesWeight(viz_input.value, item.config.data[k].name)

\* a string that is not JSON, or a value that is no mapping or lacks one of
\* the expected keys
Malformed(argument) ==
  \/ argument.kind = "text" /\ ~argument.json
  \/ /\ HasValue(argument)
     /\ \/ argument.value.type # "dict"
        \/ \E k \in 1..Len(required_keys) : ~HasKey(argument.value, required_keys[k])

\* the empty string, or an empty value
EmptyPayload(argument) ==
  \/ argument.kind = "text" /\ ~argument.json /\ argument.chars = <<>>
  \/ HasValue(argument) /\ argument.value \in {JDict(<<>>), JList(<<>>), JStr(<<>>), JNull}

\* exactly one item, a card carrying an error message
IsErrorResult(out) ==
  /\ Len(out.visualizations) = 1
  /\ out.visualizations[1].type = "card"
  /\ "message" \in DOMAIN out.visualizations[1].content

\* C6: for every malformed payload and for every empty payload, _run returns
\* a result whose visualizations list holds exactly one item, a card carrying
\* an error message.
C6_MalformedYieldsErrorCard ==
  (VizReturned /\ (Malformed(viz_input) \/ EmptyPayload(viz_input)))
    => IsErrorResult(viz_output)

\* at least one of entities, metrics, categories, core_arguments is non-empty
HasContent(argument) ==
  /\ HasValue(argument)
  /\ argument.value.type = "dict"
  /\ \E k \in 1..Len(required_keys) :
       /\ HasKey(argument.value, required_keys[k])
       /\ Truthy(Lookup(argument.value, required_keys[k]))

\* C7: _run returns zero items only for a genuinely empty payload; for every
\* payload with at least one non-empty section the result holds an item.
C7_ItemForContent ==
  (VizReturned /\ HasContent(viz_input)) => Len(viz_output.visualizations) >= 1

HasTwoCompanies(argument) ==
  /\ HasValue(argument)
  /\ argument.value.type = "dict"
  /\ HasKey(argument.value, KeyCompanies)
  /\ Lookup(argument.value, KeyCompanies) = TwoCompanies

ChartsOf(out, series_type) ==
  {item \in Items(out) : item.type = "echarts" /\ item.config.series_type = series_type}

\* C8: for a payload whose `companies` section holds two companies with
\* revenue for 2022, 2023 and 2024, _run returns a bar chart comparing the
\* revenue and a separate line chart for the profit trend.
C8_CompaniesCharts ==
  (VizReturned /\ HasTwoCompanies(viz_input))
    => /\ ChartsOf(viz_output, "bar") # {}
       /\ ChartsOf(viz_output, "line") # {}

\* the card_id of a card, the chart_id of a chart
ItemId(item) == IF item.type = "card" THEN item.card_id ELSE item.chart_id

\* the section of the payload under a key, as the cards read it
Section(argument, key, default) ==
  IF HasValue(argument) /\ argument.value.type = "dict"
    THEN Get(argument.value, key, default)
  ELSE default

\* the number of entries of a section a card carries
Entries(v) ==
  CASE v.type = "list" -> Len(v.items)
    [] v.type = "dict" -> Len(v.pairs)
    [] v.type = "str" -> Len(v.chars)
    [] OTHER -> 0

\* a card's key points and arguments are the earliest entries of the payload
\* sections, at most 5 and 3 of them
SummaryCardBounded(card) ==
  /\ Entries(card.content.entities) <= SummaryEntityLimit
  /\ Entries(card.content.arguments) <= SummaryArgumentLimit
  /\ Slice(Section(viz_input, KeyEntities, JList(<<>>)), SummaryEntityLimit)
       = Value(card.content.entities)
  /\ Slice(Section(viz_input, KeyCoreArguments, JList(<<>>)), SummaryArgumentLimit)
       = Value(card.content.arguments)

\* no section a card carries has more entries than the bound of key points
CardBounded(card) ==
  \A field \in DOMAIN card.content :
    field # "message" => Entries(card.content[field]) <= SummaryEntityLimit

\* C17: in every card _run produces the key points are at most 5 and the
\* arguments at most 3, they are the earliest entries of the payload sections
\* in payload order, and no card carries an unbounded copy of a payload
\* section.
C17_BoundedCards ==
  (VizReturned /\ HasValue(viz_input)) =>
    \A item \in Items(viz_output) :
      item.type = "card" =>
        /\ item.card_id = "summary" => SummaryCardBounded(item)
        /\ CardBounded(item)

\* C18: in every result of _run, normal or fallback, no two items of the
\* visualizations list have the same card_id/chart_id.
C18_UniqueIds ==
  VizReturned =>
    \A i, j \in 1..Len(viz_output.visualizations) :
      i # j => ItemId(viz_output.visualizations[i]) # ItemId(viz_output.visualizations[j])

\* a result with both cards and both charts
C18_Witness ==
  /\ VizReturned
  /\ Len(viz_output.visualizations) = 4
  /\ {ItemId(item) : item \in Items(viz_output)}
       = {"summary", "metrics", "entity_distribution", "metrics_analysis"}

\* the number a metric value states: the value itself for a number; for a
\* string the first numeral written in it, its thousands separators read as
\* separators (1,234 is 1234)
IsNumeralChar(c) == IsDigitOrDot(c) \/ c = 44

RECURSIVE NumeralEndAt(_, _)
NumeralEndAt(s, i) ==
  IF i <= Len(s) /\ IsNumeralChar(s[i]) THEN NumeralEndAt(s, i + 1) ELSE i

WrittenNumeral(s) ==
  LET starts == {i \in 1..Len(s) : IsDigitOrDot(s[i])}
  IN  IF starts = {} THEN <<>>
      ELSE LET i == CHOOSE j \in starts : \A k \in starts : j <= k
           IN  SelectSeq(SubSeq(s, i, NumeralEndAt(s, i) - 1), IsDigitOrDot)

HasMagnitude(value) ==
  \/ value.type = "num"
  \/ /\ value.type = "str"
     /\ WrittenNumeral(value.chars) # <<>>
     /\ ~ParseFloat(WrittenNumeral(value.chars)).raised

Magnitude(value) ==
  IF value.type = "num" THEN value ELSE ParseFloat(WrittenNumeral(value.chars)).value

\* a == b, for two numbers
NumEq(a, b) == a.mantissa * Pow10(b.scale) = b.mantissa * Pow10(a.scale)

\* the configurations of the metrics charts of a result
MetricsCharts(output) ==
  {item.config : item \in {it \in Items(output) :
                             it.type = "echarts" /\ it.chart_id = metrics_chart_id}}

\* C24: for every payload with a metrics mapping, each value the metrics chart
\* plots is the magnitude of the payload metric under the same label
\* (thousands separators included), labels and values are aligned, the metrics
\* left out are those without a numeric value, and there is no chart when no
\* metric is numeric.
C24_MetricValuesAreMagnitudes ==
  (VizReturned /\ "error" \notin DOMAIN viz_output
     /\ Lookup(parsed_data(viz_input), KeyMetrics).type = "dict") =>
    LET metrics == Lookup(parsed_data(viz_input), KeyMetrics)
        numeric == {p \in 1..Len(metrics.pairs) : HasMagnitude(metrics.pairs[p][2])}
    IN  /\ (numeric = {}) = (MetricsCharts(viz_output) = {})
        /\ \A config \in MetricsCharts(viz_output) :
             /\ Len(config.labels) = Len(config.values)
             /\ {config.labels[j] : j \in 1..Len(config.labels)}
                  = {metrics.pairs[p][1] : p \in numeric}
             /\ \A j \in 1..Len(config.labels) :
                  NumEq(config.values[j], Magnitude(Lookup(metrics, config.labels[j])))

(***************************************************************************)
(* InfoVizDemoEN and the visualizers, their calls.                         *)
(* What requests.post meets on a call of the provider.                     *)
(***************************************************************************)
MaxRuns == 2
MaxSeconds == 1

Http(status, json, body) ==
  [kind |-> "http", status |-> status, json |-> json, body |-> body]

NoResponse(kind) == [kind |-> kind, status |-> 0, json |-> FALSE, body |-> JNull]

\* {"choices": [{"message": {"content": content}}]}
Choices(items) == JDict(<< <<KeyChoices, JList(items)>> >>)

Reply(content) ==
  Choices(<< JDict(<< <<KeyMessage, JDict(<< <<KeyContent, content>> >>)>> >>) >>)

\* 'Sorry'
ContentPlain == <<83, 111, 114, 114, 121>>

ProviderReplies ==
  { Http(StatusOk, TRUE, Reply(JStr(ContentObject))),
    Http(StatusOk, TRUE, Reply(JStr(ContentList))),
    Http(StatusOk, TRUE, Reply(JStr(ContentPadded))),
    Http(StatusOk, TRUE, Reply(JStr(ContentPlain))) }

\* no response; a status that is not 2xx; a body that is not JSON, or is not
\* the mapping with choices[0].message.content, or whose content is cut short
ProviderFailures ==
  { NoResponse("connection_error"),
    NoResponse("timeout"),
    Http(401, TRUE, JDict(<< <<KeyErrorField, JStr(<<>>)>> >>)),
    Http(503, FALSE, JNull),
    Http(StatusOk, FALSE, JNull),
    Http(StatusOk, TRUE, JList(<<>>)),
    Http(StatusOk, TRUE, JDict(<<>>)),
    Http(StatusOk, TRUE, Choices(<<>>)),
    Http(StatusOk, TRUE, Choices(<< JDict(<< <<KeyMessage, JDict(<<>>)>> >>) >>)),
    Http(StatusOk, TRUE, Reply(JNull)),
    Http(StatusOk, TRUE, Reply(JStr(ContentBroken))) }

Outcomes == ProviderReplies \cup ProviderFailures

\* 优秀 公司; 下降 公司; 好 (no keyword); the empty text
TextPlain == << <<20248, 31168>>, <<20844, 21496>> >>
TextOther == << <<19979, 38477>>, <<20844, 21496>> >>
TextBare == << <<22909>> >>
TextEmpty == <<>>

NoFile == [state |-> "none", words |-> <<>>]

Files ==
  {[state |-> st, words |-> <<>>] :
     st \in {"missing", "unreadable", "directory", "not_utf8"}}
  \cup {[state |-> "text", words |-> TextPlain]}

Request(op, visualizer, words, file, use_deepseek, extract, suggest, failing) ==
  [ op |-> op, visualizer |-> visualizer, words |-> words, file |-> file,
    use_deepseek |-> use_deepseek, extract |-> extract, suggest |-> suggest,
    failing |-> failing ]

AnyOutcome == NoResponse("connection_error")

\* demo.process_text(text, use_deepseek=True), for every pair of outcomes
ProviderRequests ==
  {Request("process_text", "en", TextPlain, NoFile, TRUE, extract, suggest, {}) :
     extract \in Outcomes, suggest \in Outcomes}

\* demo.process_file(path)
FileRequests ==
  {Request("process_file", "en", <<>>, file, use_deepseek, extract, extract, {}) :
     file \in Files, use_deepseek \in BOOLEAN,
     extract \in {AnyOutcome, Http(StatusOk, TRUE, Reply(JStr(ContentObject)))}}

\* visualizer.generate_all_visualizations(summary, text) on either visualizer
RenderRequests ==
  {Request("generate_all", visualizer, words, NoFile, FALSE, AnyOutcome, AnyOutcome,
           failing) :
     visualizer \in {"en", "zh"}, words \in {TextPlain, TextBare, TextEmpty},
     failing \in SUBSET {ChartTypes[i] : i \in 1..Len(ChartTypes)}}

\* demo.process_text(text, use_deepseek=False)
LocalRequests ==
  {Request("process_text", "en", words, NoFile, FALSE, AnyOutcome, AnyOutcome, failing) :
     words \in {TextPlain, TextOther}, failing \in {{}, {"word_cloud"}}}

\* what a caller does with the application: one call, or up to MaxRuns local
\* runs one after the other
Schedules ==
  {<<r>> : r \in ProviderRequests \cup FileRequests \cup RenderRequests}
  \cup UNION {[1..n -> LocalRequests] : n \in 1..MaxRuns}

\* the application is given a key, finds one in the environment, or has none;
\* without one its caller wants a local run
InitDemo ==
  /\ jieba_initialized = FALSE
  /\ self_patterns = [p \in Processors |-> <<>>]
  /\ text = <<>>
  /\ call = NoCall
  /\ returned = Nothing
  /\ first_summary = NoSummary
  /\ others_since = FALSE
  /\ viz_input = NoPayload
  /\ viz_output = NoOutput
  /\ MainIdle
  /\ ToolsIdle
  /\ env_api_key \in BOOLEAN
  /\ app \in {[api_key |-> k, state |-> "none"] : k \in BOOLEAN}
  /\ now = 0
  /\ disk = <<>>
  /\ pending \in Schedules
  /\ (~(env_api_key /\ ~app.api_key) =>
        pending \in {<<r>> : r \in {q \in LocalRequests : q.failing = {}}})
  /\ running = NotRunning
  /\ reports = <<>>
  /\ printed = NotPrinted

\* a second passes
Tick ==
  /\ now < MaxSeconds
  /\ now' = now + 1
  /\ UNCHANGED <<textVars, vizVars, toolVars, mainVars, env_api_key, app, disk, pending,
                 running, reports, printed>>

\* demo = InfoVizDemoEN(api_key)
DemoInit ==
  /\ app.state = "none"
  /\ app' = [app EXCEPT !.state =
               IF InfoVizDemoENInit(app.api_key, env_api_key).raised
                 THEN "failed" ELSE "ready"]
  /\ UNCHANGED <<textVars, vizVars, toolVars, mainVars, env_api_key, now, disk, pending,
                 running, reports, printed>>

\* the files a call leaves in the output directory
Written(run, paths) == [p \in paths |-> [run |-> run, kind |-> "png", content |-> <<>>]]

Saved(run, path, result) ==
  path :> [run |-> run, kind |-> "json", content |-> result]

\* the paths a visualizations dict records
PathsIn(visualizations) == {visualizations[k] : k \in DOMAIN visualizations}

Report(request, result, saved, wrote) ==
  [ request |-> request, result |-> result, second |-> now, saved |-> saved,
    wrote |-> wrote,
    sent |-> IF "local_analysis" \in DOMAIN result
               THEN provider_requests(request.use_deepseek,
                                      extract_data_from_text(request.extract))
             ELSE <<>> ]

\* the call returns: its files are on disk, its result is with the caller
Returns(request, result, charts, saved) ==
  \E run \in {Len(reports) + 1}, wrote \in {charts} :
      /\ disk' = (IF saved THEN Saved(run, ResultPath(now), result) ELSE <<>>)
                   @@ Written(run, wrote) @@ disk
      /\ reports' = Append(reports,
                           Report(request, result, saved,
                                  wrote \cup (IF saved THEN {ResultPath(now)} ELSE {})))
      /\ pending' = Tail(pending)
      /\ running' = NotRunning
      /\ UNCHANGED <<textVars, vizVars, toolVars, mainVars, env_api_key, app, now, printed>>

\* the text a call analyses
TextOf(request) ==
  IF request.op = "process_file" THEN open_and_read(request.file).value
  ELSE request.words

\* the first step of a call: processor.create_data_summary(text), in
\* process_text (reached from process_file once the file is read) and in the
\* caller of a visualizer
LocalAnalysis ==
  /\ running.stage = "idle"
  /\ pending # <<>>
  /\ Head(pending).op # "generate_all" => app.state = "ready"
  /\ Head(pending).op = "process_file" => ~open_and_read(Head(pending).file).raised
  /\ \E words \in {TextOf(Head(pending))} :
       running' = [stage |-> "analysed",
                   summary |-> create_data_summary(patterns, words)]
  /\ UNCHANGED <<textVars, vizVars, toolVars, mainVars, env_api_key, app, now, disk, pending,
                 reports, printed>>

\* demo.process_text(text, use_deepseek) returns
ProcessText ==
  /\ running.stage = "analysed"
  /\ Head(pending).op = "process_text"
  /\ \E request \in {Head(pending)} :
       \E result \in {process_text(running.summary, request.words,
                                   request.use_deepseek, request.extract,
                                   request.suggest, request.failing, now)} :
         Returns(request, result, PathsIn(result.visualizations), TRUE)

\* demo.process_file(path, use_deepseek) returns: at once if the file cannot
\* be read, from process_text otherwise
ProcessFile ==
  /\ app.state = "ready"
  /\ pending # <<>>
  /\ Head(pending).op = "process_file"
  /\ running.stage = (IF open_and_read(Head(pending).file).raised THEN "idle"
                      ELSE "analysed")
  /\ \E request \in {Head(pending)} :
       \E result \in {process_file(request.file, running.summary,
                                   request.use_deepseek, request.extract,
                                   request.suggest, request.failing, now)} :
         Returns(request, result,
                 IF "error" \in DOMAIN result THEN {}
                 ELSE PathsIn(result.visualizations),
                 "error" \notin DOMAIN result)

\* visualizer.generate_all_visualizations(summary, text) returns
GenerateAll ==
  /\ running.stage = "analysed"
  /\ Head(pending).op = "generate_all"
  /\ \E request \in {Head(pending)} :
       \E result \in
           {IF request.visualizer = "en"
              THEN generate_all_visualizations_en(running.summary, request.words,
                                                  request.failing, now)
            ELSE generate_all_visualizations(running.summary, request.words,
                                             request.failing, now)} :
         Returns(request, result, PathsIn(result.visualizations), FALSE)

\* demo.print_summary(result) on the result of the last call of the application
PrintSummary ==
  /\ reports # <<>>
  /\ reports[Len(reports)].request.op \in {"process_text", "process_file"}
  /\ printed.run # Len(reports)
  /\ \E outcome \in {print_summary(reports[Len(reports)].result)} :
       printed' = [run |-> Len(reports), outcome |-> outcome]
  /\ UNCHANGED <<textVars, vizVars, toolVars, mainVars, env_api_key, app, now, disk, pending,
                 running, reports>>

NextDemo ==
  \/ Tick
  \/ DemoInit
  \/ LocalAnalysis
  \/ ProcessText
  \/ ProcessFile
  \/ GenerateAll
  \/ PrintSummary

SpecDemo == InitDemo /\ [][NextDemo]_vars

(***************************************************************************)
(* Claims about InfoVizDemoEN and the visualizers.                         *)
(***************************************************************************)
LastReport == reports[Len(reports)]

ProviderRun(r) == r.request.op = "process_text" /\ r.request.use_deepseek

\* the provider part of a result says that the call failed
HasErrorField(v) == v.type = "dict" /\ HasKey(v, KeyErrorField)

SuggestionsHaveError(v) ==
  \/ HasErrorField(v)
  \/ v.type = "list" /\ v.items # <<>> /\ HasErrorField(v.items[1])

\* C11: when process_text is called with use_deepseek=True and a provider call
\* fails (no response, a status that is not 2xx, a body that cannot be
\* parsed), the part of the result that call fills carries an error field, the
\* call returns, and the result it returns and saves still holds the local
\* analysis of the text and the visualizations made from it.
\* A reply whose content is plain text is no failure: it is returned as
\* {"content": text}.
C11_ProviderFailureCaptured ==
  (reports # <<>> /\ ProviderRun(LastReport)) =>
    LET request == LastReport.request
        result == LastReport.result
        local_summary == create_data_summary(patterns, request.words)
    IN  /\ request.extract \in ProviderFailures =>
             /\ "deepseek_analysis" \in DOMAIN result
             /\ HasErrorField(result.deepseek_analysis)
        /\ request.suggest \in ProviderFailures =>
             /\ "visualization_suggestions" \in DOMAIN result
             /\ SuggestionsHaveError(result.visualization_suggestions)
        /\ result.local_analysis = local_summary
        /\ result.visualizations =
             generate_all_visualizations_en(local_summary, request.words,
                                            request.failing,
                                            LastReport.second).visualizations
        /\ result.visualizations # <<>>
        /\ ResultPath(LastReport.second) \in DOMAIN disk
        /\ disk[ResultPath(LastReport.second)].content = result

C11_Witness ==
  /\ reports # <<>>
  /\ ProviderRun(LastReport)
  /\ LastReport.request.extract \in ProviderFailures
  /\ LastReport.request.suggest \in ProviderFailures
  /\ LastReport.request.extract # LastReport.request.suggest
  /\ "data_summary" \in DOMAIN LastReport.result.visualizations

\* C12: with no API key, neither passed nor in the environment, the
\* application is constructed all the same, so that a local run
\* (use_deepseek=False) can be made with it.
C12_LocalOnlyWithoutKey ==
  (~env_api_key /\ ~app.api_key
     /\ pending # <<>> /\ ~Head(pending).use_deepseek) => app.state # "failed"

\* the calls a visualizer makes for a request when none of them raises
StepsOf(request) ==
  LET data_summary == create_data_summary(patterns, request.words)
  IN  IF request.visualizer = "en"
        THEN steps_en(data_summary, request.words, request.failing, 0)
      ELSE steps_zh(data_summary, request.words, request.failing, 0)

\* C13: in generate_all_visualizations of both visualizers, a chart type
\* that comes after a failing one is still attempted, and if its renderer
\* returns a path the path is in the returned mapping.
C13_RenderersIsolated ==
  \A n \in 1..Len(reports) :
    reports[n].request.op = "generate_all" =>
      LET steps == StepsOf(reports[n].request)
          result == reports[n].result
      IN  \A i, j \in 1..Len(steps) :
            (i < j /\ steps[i].result.raised) =>
              /\ steps[j].kind \in result.attempted
              /\ (~steps[j].result.raised /\ steps[j].result.value # JNull) =>
                   steps[j].kind \in DOMAIN result.visualizations

\* the runs that saved a report
SavedRuns == {n \in 1..Len(reports) : reports[n].saved}

ReportFiles == {p \in DOMAIN disk : disk[p].kind = "json"}

\* C14: the output directory holds one report file for each run that
\* completed, and each run's file still holds that run's report.
C14_OneReportPerRun ==
  /\ Cardinality(ReportFiles) = Cardinality(SavedRuns)
  /\ \A n \in SavedRuns :
       /\ ResultPath(reports[n].second) \in DOMAIN disk
       /\ disk[ResultPath(reports[n].second)].run = n
       /\ disk[ResultPath(reports[n].second)].content = reports[n].result

\* C15: two runs do not interfere: the summaries of one text are the same,
\* and no path recorded in the report of one run is written by the other.
C15_NoCrossTalk ==
  \A a, b \in SavedRuns :
    a # b =>
      /\ reports[a].request.words = reports[b].request.words =>
           reports[a].result.local_analysis = reports[b].result.local_analysis
      /\ PathsIn(reports[a].result.visualizations) \cap reports[b].wrote = {}

UnreadableFile(r) == r.request.op = "process_file" /\ r.request.file.state # "text"

\* C20: process_file on a file that is missing or cannot be read returns a
\* mapping with an 'error' field, and print_summary on that mapping returns.
C20_UnreadableFileIsData ==
  \A n \in 1..Len(reports) :
    UnreadableFile(reports[n]) =>
      /\ "error" \in DOMAIN reports[n].result
      /\ printed.run = n => ~printed.outcome.raised

C20_Witness ==
  /\ reports # <<>>
  /\ UnreadableFile(LastReport)
  /\ LastReport.request.file.state = "not_utf8"
  /\ printed.run = Len(reports)
  /\ printed.outcome.value = {}

\* what extract_data_from_text may be asked for: the four documented types and
\* one that is none of them
ExtractionTypes == PromptNames \cup {"summary"}

\* the content of the reply a request met, if it has one
ContentOf(outcome) ==
  IF _make_request(outcome).raised THEN Throw("Exception")
  ELSE message_content(_make_request(outcome).value)

\* {"error": message}, with or without the raw response beside it
IsErrorWrapper(v) ==
  /\ v.type = "dict"
  /\ HasKey(v, KeyErrorField)
  /\ Lookup(v, KeyErrorField).type = "str"
  /\ \A i \in 1..Len(v.pairs) : v.pairs[i][1] \in {KeyErrorField, KeyRawResponse}

\* {"content": the reply as it came}
IsContentWrapper(v, content) ==
  /\ ~content.raised
  /\ v = JDict(<< <<KeyContent, content.value>> >>)

\* the reply, parsed as JSON
IsParsedReply(v, content) ==
  /\ ~content.raised
  /\ content.value.type = "str"
  /\ json_loads(content.value.chars) = Return(v)

ShapesOf(v, content) ==
  {shape \in {"parsed", "content", "error"} :
     \/ shape = "parsed" /\ IsParsedReply(v, content)
     \/ shape = "content" /\ IsContentWrapper(v, content)
     \/ shape = "error" /\ IsErrorWrapper(v)}

\* C21: whatever the provider does and whatever extraction type is asked for
\* (one that is not documented selects the comprehensive prompt),
\* extract_data_from_text returns, and what it returns (the deepseek_analysis
\* of the result) has exactly one of three shapes: the reply parsed as JSON,
\* {"content": reply}, or a mapping with an error message.
C21_ThreeShapes ==
  /\ \A t \in ExtractionTypes :
       /\ prompt_for(t) \in PromptNames
       /\ t \notin PromptNames => prompt_for(t) = "comprehensive"
  /\ \A n \in 1..Len(reports) :
       ProviderRun(reports[n]) =>
         /\ "deepseek_analysis" \in DOMAIN reports[n].result
         /\ "deepseek_error" \notin DOMAIN reports[n].result
         /\ Cardinality(ShapesOf(reports[n].result.deepseek_analysis,
                                 ContentOf(reports[n].request.extract))) = 1

C21_Witness ==
  /\ reports # <<>>
  /\ ProviderRun(LastReport)
  /\ LastReport.request.extract = Http(StatusOk, TRUE, Reply(JStr(ContentBroken)))
  /\ HasKey(LastReport.result.deepseek_analysis, KeyRawResponse)

\* C25: in process_text with use_deepseek=True, when the extraction request
\* fails (extract_data_from_text returns a mapping with an error field), no
\* further request is sent to the provider in that run, and the run returns
\* with the local summary.
C25_NoRequestAfterFailure ==
  \A n \in 1..Len(reports) :
    (ProviderRun(reports[n]) /\ reports[n].request.extract \in ProviderFailures) =>
      /\ reports[n].sent = <<"extract_data_from_text">>
      /\ "local_analysis" \in DOMAIN reports[n].result

(***************************************************************************)
(* validate_data_authenticity and main() (src/main.py).                    *)
(* The check reads the parsed visualization result with `in`, [], .get and *)
(* for; only json.JSONDecodeError is caught.  A report is the sequence of  *)
(* its warnings, each named by what it warns of.                           *)
(***************************************************************************)
\* 'visualizations', 'type', 'echarts', 'config', 'radar', 'series', 'data',
\* 'value', 'pie', 'key_metrics', 'bar', 'card'
KeyVisualizations == <<118, 105, 115, 117, 97, 108, 105, 122, 97, 116, 105, 111, 110, 115>>
KeyType == <<116, 121, 112, 101>>
StrEcharts == <<101, 99, 104, 97, 114, 116, 115>>
KeyConfig == <<99, 111, 110, 102, 105, 103>>
KeyRadar == <<114, 97, 100, 97, 114>>
KeySeries == <<115, 101, 114, 105, 101, 115>>
KeyData == <<100, 97, 116, 97>>
KeyValue == <<118, 97, 108, 117, 101>>
StrPie == <<112, 105, 101>>
KeyKeyMetrics == <<107, 101, 121, 95, 109, 101, 116, 114, 105, 99, 115>>
StrBar == <<98, 97, 114>>
StrCard == <<99, 97, 114, 100>>

\* [85, 70, 45, 90, 80, 60, 50, 40, 30, 20, 10]
suspicious_values == {85, 70, 45, 90, 80, 60, 50, 40, 30, 20, 10}

\* isinstance(v, (int, float))
IsNumber(v) == v.type = "num"

\* v in [85, 70, ...]: equality with a list member, whatever v is
IsSuspicious(v) ==
  /\ v.type = "num"
  /\ \E s \in suspicious_values : v.mantissa = s * Pow10(v.scale)

\* v.get(key, default): AttributeError unless v is a dict
GetOf(v, key, default) ==
  IF v.type = "dict" THEN Value(Get(v, key, default)) ELSE Raised

\* `if key in v:` followed by v[key]: whether the key is found, and the value
\* read; TypeError from `in` for a number or None, from [] for a str or list
IfHas(v, key) ==
  IF Contains(v, key).raised THEN [raised |-> TRUE, has |-> FALSE, value |-> JNull]
  ELSE IF ~Contains(v, key).value THEN [raised |-> FALSE, has |-> FALSE, value |-> JNull]
  ELSE IF v.type # "dict" THEN [raised |-> TRUE, has |-> TRUE, value |-> JNull]
  ELSE [raised |-> FALSE, has |-> TRUE, value |-> Lookup(v, key)]

\* one statement after the other
Both(first, second) ==
  IF first.raised \/ second.raised THEN Raised
  ELSE Value(first.value \o second.value)

\* for item in v: Body(item)
Each(v, Body(_)) ==
  IF Iterate(v).raised THEN Raised
  ELSE LET items == Iterate(v).value
           outcomes == [i \in 1..Len(items) |-> Body(items[i])]
       IN  IF \E i \in 1..Len(items) : outcomes[i].raised THEN Raised
           ELSE Value(Join([i \in 1..Len(items) |-> outcomes[i].value]))

\* any(val in [...] for val in values)
any_suspicious(values) ==
  IF Iterate(values).raised THEN Raised
  ELSE Value(JNum(IF \E i \in 1..Len(Iterate(values).value) :
                       IsSuspicious(Iterate(values).value[i])
                    THEN 1 ELSE 0, 0))

radar_item(data_item) ==
  LET values == IfHas(data_item, KeyValue)
  IN  IF values.raised THEN Raised
      ELSE IF ~values.has THEN Value(<<>>)
      ELSE IF any_suspicious(values.value).raised THEN Raised
      ELSE Value(IF Truthy(any_suspicious(values.value).value)
                   THEN <<"radar">> ELSE <<>>)

radar_series(series) ==
  LET data == IfHas(series, KeyData)
  IN  IF data.raised THEN Raised
      ELSE IF ~data.has THEN Value(<<>>)
      ELSE Each(data.value, radar_item)

pie_item(item) ==
  LET value == IfHas(item, KeyValue)
  IN  IF value.raised THEN Raised
      ELSE Value(IF value.has /\ IsNumber(value.value) /\ IsSuspicious(value.value)
                   THEN <<"pie">> ELSE <<>>)

pie_series(series) ==
  LET type == GetOf(series, KeyType, JNull)
      data == IfHas(series, KeyData)
  IN  IF type.raised THEN Raised
      ELSE IF type.value # JStr(StrPie) THEN Value(<<>>)
      ELSE IF data.raised THEN Raised
      ELSE IF ~data.has THEN Value(<<>>)
      ELSE Each(data.value, pie_item)

radar_check(config) ==
  IF Contains(config, KeyRadar).raised THEN Raised
  ELSE IF ~Contains(config, KeyRadar).value THEN Value(<<>>)
  ELSE IF GetOf(config, KeySeries, JList(<<>>)).raised THEN Raised
  ELSE Each(GetOf(config, KeySeries, JList(<<>>)).value, radar_series)

pie_check(config) ==
  LET series == IfHas(config, KeySeries)
  IN  IF series.raised THEN Raised
      ELSE IF ~series.has THEN Value(<<>>)
      ELSE Each(series.value, pie_series)

viz_check(viz) ==
  LET type == GetOf(viz, KeyType, JNull)
      config == IfHas(viz, KeyConfig)
  IN  IF type.raised THEN Raised
      ELSE IF type.value # JStr(StrEcharts) THEN Value(<<>>)
      ELSE IF config.raised THEN Raised
      ELSE IF ~config.has THEN Value(<<>>)
      ELSE IF radar_check(config.value).raised THEN Raised
      ELSE Both(radar_check(config.value), pie_check(config.value))

visualizations_check(data) ==
  LET visualizations == IfHas(data, KeyVisualizations)
  IN  IF visualizations.raised THEN Raised
      ELSE IF ~visualizations.has THEN Value(<<>>)
      ELSE Each(visualizations.value, viz_check)

metric_check(metric) ==
  LET value == IfHas(metric, KeyValue)
  IN  IF value.raised THEN Raised
      ELSE Value(IF value.has /\ IsNumber(value.value) /\ IsSuspicious(value.value)
                   THEN <<"key_metric">> ELSE <<>>)

key_metrics_check(data) ==
  LET key_metrics == IfHas(data, KeyKeyMetrics)
  IN  IF key_metrics.raised THEN Raised
      ELSE IF ~key_metrics.has THEN Value(<<>>)
      ELSE Each(key_metrics.value, metric_check)

\* the report: has_virtual_data and the warnings
ValidationReport(warnings) ==
  [has_virtual_data |-> Len(warnings) > 0, warnings |-> warnings]

\* result_data is a str: blank, not JSON, or the text of a JSON value
validate_data_authenticity(result_data) ==
  IF result_data.blank THEN Value(ValidationReport(<<>>))
  ELSE IF ~result_data.json THEN Value(ValidationReport(<<"unparsable">>))
  ELSE IF visualizations_check(result_data.value).raised THEN Raised
  ELSE LET warnings == Both(visualizations_check(result_data.value),
                            key_metrics_check(result_data.value))
       IN  IF warnings.raised THEN Raised
           ELSE Value(ValidationReport(warnings.value))

(***************************************************************************)
(* main(), its runs.  The visualization result of the CrewAI run is what   *)
(* extract_json_from_markdown returns: any str.                            *)
(***************************************************************************)
ResultText(v) == [kind |-> "text", blank |-> FALSE, json |-> TRUE, value |-> v]
BlankResult == [kind |-> "text", blank |-> TRUE, json |-> FALSE, value |-> JNull]
\* '未完成', or any other text that is not JSON
UnparsableResult == [kind |-> "text", blank |-> FALSE, json |-> FALSE, value |-> JNull]
\* process_text_with_crewai raised
CrewRaised == [kind |-> "raised", blank |-> FALSE, json |-> FALSE, value |-> JNull]

Pairs(keys, values) == [i \in 1..Len(keys) |-> <<keys[i], values[i]>>]

\* the entries of a series' data
DataItems ==
  { JDict(Pairs(<<KeyName, KeyValue>>, <<JStr(StrBar), JInt(85)>>)),
    JDict(Pairs(<<KeyName, KeyValue>>, <<JStr(StrBar), JInt(33)>>)),
    JDict(Pairs(<<KeyName, KeyValue>>, <<JStr(StrBar), JNum(850, 1)>>)),
    JDict(Pairs(<<KeyName, KeyValue>>, <<JStr(StrBar), JStr(<<56, 53>>)>>)),
    JDict(Pairs(<<KeyValue>>, <<JList(<<JInt(85), JInt(70)>>)>>)),
    JDict(Pairs(<<KeyValue>>, <<JList(<<JInt(12), JInt(7)>>)>>)),
    JDict(Pairs(<<KeyName>>, <<JStr(StrBar)>>)),
    JStr(StrBar),
    JStr(KeyValue),
    JInt(85) }

SeriesEntries ==
  {JDict(Pairs(<<KeyType, KeyData>>, <<JStr(type), JList(<<item>>)>>)) :
     type \in {StrPie, StrBar, KeyRadar}, item \in DataItems}
  \cup {JDict(Pairs(<<KeyType>>, <<JStr(type)>>)) : type \in {StrPie, KeyRadar}}
  \cup {JDict(Pairs(<<KeyType, KeyData>>, <<JStr(type), JInt(85)>>)) :
          type \in {StrPie, StrBar}}
  \cup {JStr(StrPie), JInt(85), JNull}

SeriesValues ==
  {JList(<<series>>) : series \in SeriesEntries}
  \cup {JList(<<>>), JNull, JInt(85), JStr(KeyData)}

Configs ==
  {JDict(Pairs(<<KeySeries>>, <<series>>)) : series \in SeriesValues}
  \cup {JDict(Pairs(<<KeyRadar, KeySeries>>, <<JDict(<<>>), series>>)) :
          series \in SeriesValues}
  \cup {JDict(Pairs(<<KeyRadar>>, <<JDict(<<>>)>>)), JDict(<<>>), JStr(KeyRadar),
        JStr(StrBar), JList(<<>>), JInt(85), JNull}

VisualizationEntries ==
  {JDict(Pairs(<<KeyType, KeyConfig>>, <<JStr(StrEcharts), config>>)) :
     config \in Configs}
  \cup {JDict(Pairs(<<KeyType>>, <<JStr(StrEcharts)>>)),
        JDict(Pairs(<<KeyType, KeyConfig>>, <<JStr(StrCard), JInt(85)>>)),
        JDict(<<>>), JStr(StrCard), JInt(85), JNull}

MetricEntries ==
  { JDict(Pairs(<<KeyName, KeyValue>>, <<JStr(StrBar), JInt(85)>>)),
    JDict(Pairs(<<KeyName, KeyValue>>, <<JStr(StrBar), JInt(33)>>)),
    JDict(Pairs(<<KeyName, KeyValue>>, <<JStr(StrBar), JStr(<<56, 53>>)>>)),
    JDict(Pairs(<<KeyName>>, <<JStr(StrBar)>>)),
    JStr(KeyValue), JStr(StrBar), JInt(85), JNull }

ResultValues ==
  {JDict(Pairs(<<KeyVisualizations>>, <<JList(<<viz>>)>>)) : viz \in VisualizationEntries}
  \cup {JDict(Pairs(<<KeyVisualizations>>, <<v>>)) :
          v \in {JList(<<>>), JNull, JInt(85), JStr(StrCard), JDict(<<>>)}}
  \cup {JDict(Pairs(<<KeyVisualizations, KeyKeyMetrics>>,
                    <<JList(<<>>), JList(<<metric>>)>>)) : metric \in MetricEntries}
  \cup {JDict(Pairs(<<KeyKeyMetrics>>, <<v>>)) : v \in {JNull, JInt(85), JStr(StrBar)}}
  \cup {JDict(<<>>), JList(<<>>), JList(<<JStr(KeyVisualizations)>>),
        JStr(StrBar), JStr(KeyVisualizations), JStr(KeyKeyMetrics), JInt(85), JNull}

CrewResults ==
  {ResultText(v) : v \in ResultValues} \cup {BlankResult, UnparsableResult, CrewRaised}

NotValidated == ValidationReport(<<>>)

\* the environment has the key or not, data.txt is there or not
InitMain ==
  /\ jieba_initialized = FALSE
  /\ self_patterns = [p \in Processors |-> <<>>]
  /\ text = <<>>
  /\ call = NoCall
  /\ returned = Nothing
  /\ first_summary = NoSummary
  /\ others_since = FALSE
  /\ viz_input = NoPayload
  /\ viz_output = NoOutput
  /\ ToolsIdle
  /\ app = [api_key |-> FALSE, state |-> "none"]
  /\ now = 0
  /\ disk = <<>>
  /\ pending = <<>>
  /\ running = NotRunning
  /\ reports = <<>>
  /\ printed = NotPrinted
  /\ env_api_key \in BOOLEAN
  /\ crew_result \in CrewResults
  /\ main_state \in {[at |-> "start", data_file |-> f, validated |-> FALSE,
                      saved |-> FALSE, validation |-> NotValidated] : f \in BOOLEAN}
  /\ (~(env_api_key /\ main_state.data_file) => crew_result = BlankResult)

\* main() up to the CrewAI run: it returns at once without the key or data.txt
MainStart ==
  /\ main_state.at = "start"
  /\ main_state' = [main_state EXCEPT !.at =
                      IF env_api_key /\ main_state.data_file THEN "processing"
                      ELSE "returned"]
  /\ UNCHANGED <<textVars, vizVars, toolVars, demoVars, crew_result>>

\* the try block of main(): the CrewAI run, the validation, then the dump to
\* visualization_result.json; any exception ends the block
MainProcess ==
  /\ main_state.at = "processing"
  /\ LET validation_result == validate_data_authenticity(crew_result)
     IN  main_state' =
           IF crew_result.kind = "raised"
             THEN [main_state EXCEPT !.at = "failed"]
           ELSE IF validation_result.raised
             THEN [main_state EXCEPT !.at = "failed"]
           ELSE [main_state EXCEPT !.at = "finished", !.validated = TRUE,
                                   !.saved = TRUE,
                                   !.validation = validation_result.value]
  /\ UNCHANGED <<textVars, vizVars, toolVars, demoVars, crew_result>>

NextMain ==
  \/ MainStart
  \/ MainProcess

SpecMain == InitMain /\ [][NextMain]_vars

(***************************************************************************)
(* Claims about main().                                                    *)
(***************************************************************************)
\* C16: whatever str the CrewAI run hands over as its visualization result,
\* validate_data_authenticity returns a report and main() then saves
\* visualization_result.json.
C16_ValidationAdvisory ==
  (main_state.at \in {"finished", "failed"} /\ crew_result.kind = "text") =>
    /\ main_state.validated
    /\ main_state.saved


\* C28: in the report main() gets from validate_data_authenticity,
\* has_virtual_data is true exactly when there is a warning, every warning is
\* about a denylisted value found in a radar series, a pie series or a key
\* metric, and a result that is blank or is not JSON is not reported as
\* containing virtual data.
C28_OnlyRealVirtualData ==
  main_state.at = "finished" =>
    /\ main_state.validation.has_virtual_data = (main_state.validation.warnings # <<>>)
    /\ \A i \in 1..Len(main_state.validation.warnings) :
         main_state.validation.warnings[i] \in {"radar", "pie", "key_metric"}
    /\ (crew_result.blank \/ ~crew_result.json) =>
         ~main_state.validation.has_virtual_data


(***************************************************************************)
(* DataStructuringTool (src/tools.py).                                     *)
(* The processing_timestamp of a result is the wall clock; it is left out. *)
(***************************************************************************)
\* the digits of n, with zeros in front up to the given width
PadDigits(n, width) ==
  [i \in 1..(width - Len(Digits(n))) |-> 48] \o Digits(n)

\* str(v) for a string, a number, None and the empty list and dict; the
\* entries of the model's sections are of these types
PyStr(v) ==
  CASE v.type = "str" -> v.chars
    [] v.type = "num" ->
         LET m == IF v.mantissa < 0 THEN -v.mantissa ELSE v.mantissa
         IN  (IF v.mantissa < 0 THEN <<45>> ELSE <<>>)
               \o Digits(m \div Pow10(v.scale))
               \o (IF v.scale = 0 THEN <<>>
                   ELSE <<46>> \o PadDigits(m % Pow10(v.scale), v.scale))
    [] v.type = "null" -> <<78, 111, 110, 101>>
    [] v.type = "list" -> <<91, 93>>
    [] v.type = "dict" -> <<123, 125>>

\* the test `entity and str(entity).strip()`
IsKept(entry) == Truthy(entry) /\ Strip(PyStr(entry)) # <<>>

\* [str(e).strip() for e in items if e and str(e).strip()]
RECURSIVE CleanEntries(_)
CleanEntries(items) ==
  IF items = <<>> THEN <<>>
  ELSE (IF IsKept(Head(items)) THEN <<JStr(Strip(PyStr(Head(items))))>> ELSE <<>>)
         \o CleanEntries(Tail(items))

\* the cleaned list of a section: TypeError unless the section can be iterated
clean_list(section) ==
  IF Iterate(section).raised THEN Raised
  ELSE Value(JList(CleanEntries(Iterate(section).value)))

\* for key, value in data['metrics'].items(): if value and str(value).strip():
\* cleaned['metrics'][str(key).strip()] = str(value).strip()
RECURSIVE CleanMetrics(_, _)
CleanMetrics(cleaned, pairs) ==
  IF pairs = <<>> THEN cleaned
  ELSE CleanMetrics(IF IsKept(Head(pairs)[2])
                      THEN SetItem(cleaned, Strip(Head(pairs)[1]),
                                   JStr(Strip(PyStr(Head(pairs)[2]))))
                    ELSE cleaned,
                    Tail(pairs))

\* the cleaned metrics: AttributeError from .items() unless they are a dict
clean_metrics(section) ==
  IF section.type # "dict" THEN Raised
  ELSE Value(JDict(CleanMetrics(<<>>, section.pairs)))

\* the entry `cleaned[key] = ...` adds, none if the key is not in data
CleanedEntry(found, key, section) ==
  IF found.has THEN << <<key, section.value>> >> ELSE <<>>

\* _clean_and_validate_data: `key in data` raises TypeError for a number or
\* None, data[key] for a list or a str that holds the key
_clean_and_validate_data(data) ==
  LET entities == IfHas(data, KeyEntities)
      metrics == IfHas(data, KeyMetrics)
      categories == IfHas(data, KeyCategories)
      core_arguments == IfHas(data, KeyCoreArguments)
  IN  IF entities.raised \/ (entities.has /\ clean_list(entities.value).raised) THEN Raised
      ELSE IF metrics.raised \/ (metrics.has /\ clean_metrics(metrics.value).raised) THEN Raised
      ELSE IF categories.raised \/ (categories.has /\ clean_list(categories.value).raised)
        THEN Raised
      ELSE IF core_arguments.raised
                \/ (core_arguments.has /\ clean_list(core_arguments.value).raised)
        THEN Raised
      ELSE Value(JDict(CleanedEntry(entities, KeyEntities, clean_list(entities.value))
                         \o CleanedEntry(metrics, KeyMetrics, clean_metrics(metrics.value))
                         \o CleanedEntry(categories, KeyCategories, clean_list(categories.value))
                         \o CleanedEntry(core_arguments, KeyCoreArguments,
                                         clean_list(core_arguments.value))))

\* 'data_summary', 'total_entities', 'total_metrics', 'total_categories',
\* 'total_arguments', 'data_quality', 'score', 'max_score', 'percentage',
\* 'raw_content'
KeyDataSummary == <<100, 97, 116, 97, 95, 115, 117, 109, 109, 97, 114, 121>>
KeyTotalEntities == <<116, 111, 116, 97, 108, 95, 101, 110, 116, 105, 116, 105, 101, 115>>
KeyTotalMetrics == <<116, 111, 116, 97, 108, 95, 109, 101, 116, 114, 105, 99, 115>>
KeyTotalCategories == <<116, 111, 116, 97, 108, 95, 99, 97, 116, 101, 103, 111, 114, 105, 101, 115>>
KeyTotalArguments == <<116, 111, 116, 97, 108, 95, 97, 114, 103, 117, 109, 101, 110, 116, 115>>
KeyDataQuality == <<100, 97, 116, 97, 95, 113, 117, 97, 108, 105, 116, 121>>
KeyScore == <<115, 99, 111, 114, 101>>
KeyMaxScore == <<109, 97, 120, 95, 115, 99, 111, 114, 101>>
KeyPercentage == <<112, 101, 114, 99, 101, 110, 116, 97, 103, 101>>
KeyRawContent == <<114, 97, 119, 95, 99, 111, 110, 116, 101, 110, 116>>

\* len(v), for a list or a dict
PyLen(v) == IF v.type = "dict" THEN Len(v.pairs) ELSE Len(v.items)

max_score == 4

\* the status of a score
quality_status(quality_score) ==
  IF quality_score >= 3 THEN <<101, 120, 99, 101, 108, 108, 101, 110, 116>>
  ELSE IF quality_score >= 2 THEN <<103, 111, 111, 100>>
  ELSE <<102, 97, 105, 114>>

\* the dict of a quality assessment; the percentage is a float
QualityDict(quality_score, percentage, status) ==
  JDict(<< <<KeyScore, JInt(quality_score)>>, <<KeyMaxScore, JInt(max_score)>>,
           <<KeyPercentage, percentage>>, <<KeyStatus, JStr(status)>> >>)

\* _assess_data_quality: one point for each section that is there and not
\* empty; (quality_score / max_score) * 100
_assess_data_quality(data) ==
  LET quality_score ==
        Cardinality({k \in 1..Len(required_keys) :
                       Truthy(Get(data, required_keys[k], JNull))})
  IN  QualityDict(quality_score, JNum((quality_score * 1000) \div max_score, 1),
                  quality_status(quality_score))

\* the dict of a structured result, from its parts
StructuredData(entities, metrics, categories, core_arguments, data_quality) ==
  << <<KeyDataSummary,
       JDict(<< <<KeyTotalEntities, JInt(PyLen(entities))>>,
                <<KeyTotalMetrics, JInt(PyLen(metrics))>>,
                <<KeyTotalCategories, JInt(PyLen(categories))>>,
                <<KeyTotalArguments, JInt(PyLen(core_arguments))>> >>)>>,
     <<KeyEntities, entities>>,
     <<KeyMetrics, metrics>>,
     <<KeyCategories, categories>>,
     <<KeyCoreArguments, core_arguments>>,
     <<KeyDataQuality, data_quality>> >>

_generate_structured_data(cleaned_data) ==
  JDict(StructuredData(Get(cleaned_data, KeyEntities, JList(<<>>)),
                       Get(cleaned_data, KeyMetrics, JDict(<<>>)),
                       Get(cleaned_data, KeyCategories, JList(<<>>)),
                       Get(cleaned_data, KeyCoreArguments, JList(<<>>)),
                       _assess_data_quality(cleaned_data)))

\* _create_fallback_structured_data; error: 数据结构化失败，请检查输入数据
_create_fallback_structured_data ==
  JDict(StructuredData(JList(<<>>), JDict(<<>>), JList(<<>>), JList(<<>>),
                       QualityDict(0, JInt(0), <<101, 114, 114, 111, 114>>))
          \o << <<KeyErrorField, JStr(<<25968, 25454, 32467, 26500, 21270, 22833, 36133, 65292, 35831, 26816, 26597, 36755, 20837, 25968, 25454>>)>> >>)

\* the data _run works on: the parsed text, {"raw_content": text} for a text
\* that is not JSON, the argument itself if it is no str
structuring_data(extracted_content) ==
  IF extracted_content.kind = "text"
    THEN IF JsonLoads(extracted_content).raised
           THEN JDict(<< <<KeyRawContent, JStr(extracted_content.chars)>> >>)
         ELSE JsonLoads(extracted_content).value
  ELSE extracted_content.value

\* DataStructuringTool._run: the document it returns; every exception is
\* caught and answered with the fallback
DataStructuringTool_run(extracted_content) ==
  IF _clean_and_validate_data(structuring_data(extracted_content)).raised
    THEN JsonText(_create_fallback_structured_data)
  ELSE JsonText(_generate_structured_data(
                  _clean_and_validate_data(structuring_data(extracted_content)).value))

(***************************************************************************)
(* The result of VisualizationTool._run as the JSON document json.dumps    *)
(* writes and json.loads reads back.                                       *)
(***************************************************************************)
\* 'title', 'card_id', 'chart_id', 'arguments', 'total_items', 'description',
\* 'xAxis', 'text'
KeyTitle == <<116, 105, 116, 108, 101>>
KeyCardId == <<99, 97, 114, 100, 95, 105, 100>>
KeyChartId == <<99, 104, 97, 114, 116, 95, 105, 100>>
KeyArguments == <<97, 114, 103, 117, 109, 101, 110, 116, 115>>
KeyTotalItems == <<116, 111, 116, 97, 108, 95, 105, 116, 101, 109, 115>>
KeyDescription == <<100, 101, 115, 99, 114, 105, 112, 116, 105, 111, 110>>
KeyXAxis == <<120, 65, 120, 105, 115>>
KeyText == <<116, 101, 120, 116>>

\* the characters of the type and id strings of an item
Chars(name) ==
  CASE name = "card" -> StrCard
    [] name = "echarts" -> StrEcharts
    [] name = "pie" -> StrPie
    [] name = "bar" -> StrBar
    [] name = "summary" -> <<115, 117, 109, 109, 97, 114, 121>>
    [] name = "metrics" -> KeyMetrics
    [] name = "error_card" -> <<101, 114, 114, 111, 114, 95, 99, 97, 114, 100>>
    [] name = "entity_distribution" -> <<101, 110, 116, 105, 116, 121, 95, 100, 105, 115, 116, 114, 105, 98, 117, 116, 105, 111, 110>>
    [] name = "metrics_analysis" -> <<109, 101, 116, 114, 105, 99, 115, 95, 97, 110, 97, 108, 121, 115, 105, 115>>

\* the content of a card
ContentJson(content) ==
  JDict((IF "entities" \in DOMAIN content
           THEN << <<KeyEntities, content.entities>>, <<KeyArguments, content.arguments>> >>
         ELSE <<>>)
        \o (IF "metrics" \in DOMAIN content
              THEN << <<KeyMetrics, content.metrics>> >> ELSE <<>>)
        \o (IF "message" \in DOMAIN content
              THEN << <<KeyMessage, JStr(content.message)>> >> ELSE <<>>))

\* {"value": v, "name": k}
SliceJson(group) ==
  JDict(<< <<KeyValue, JInt(group.value)>>, <<KeyName, JStr(group.name)>> >>)

\* the series of a chart: the pie's slices, or the bar's values
SeriesJson(config) ==
  JList(<< JDict(<< <<KeyType, JStr(Chars(config.series_type))>>,
                    <<KeyData,
                      IF config.series_type = "pie"
                        THEN JList([i \in 1..Len(config.data) |-> SliceJson(config.data[i])])
                      ELSE JList(config.values)>> >>) >>)

\* the config of a chart: its title, the labels of a bar chart, its series
ConfigJson(title, config) ==
  JDict(<< <<KeyTitle, JDict(<< <<KeyText, JStr(title)>> >>)>> >>
        \o (IF config.series_type = "bar"
              THEN << <<KeyXAxis,
                        JDict(<< <<KeyData,
                                   JList([i \in 1..Len(config.labels) |->
                                            JStr(config.labels[i])])>> >>)>> >>
            ELSE <<>>)
        \o << <<KeySeries, SeriesJson(config)>> >>)

ItemJson(item) ==
  IF item.type = "card"
    THEN JDict(<< <<KeyType, JStr(Chars(item.type))>>,
                  <<KeyCardId, JStr(Chars(item.card_id))>>,
                  <<KeyTitle, JStr(item.title)>>,
                  <<KeyContent, ContentJson(item.content)>> >>)
  ELSE JDict(<< <<KeyType, JStr(Chars(item.type))>>,
                <<KeyChartId, JStr(Chars(item.chart_id))>>,
                <<KeyTitle, JStr(item.title)>>,
                <<KeyConfig, ConfigJson(item.title, item.config)>> >>)

\* the str _run returns
VisualizationJson(output) ==
  ResultText(
    JDict(<< <<KeyVisualizations,
               JList([i \in 1..Len(output.visualizations) |->
                        ItemJson(output.visualizations[i])])>>,
             <<KeyTotalItems, JInt(output.total_items)>>,
             <<KeyDescription, JStr(output.description)>> >>
          \o (IF "error" \in DOMAIN output
                THEN << <<KeyErrorField, JStr(output.error)>> >> ELSE <<>>)))

(***************************************************************************)
(* The tools of the CrewAI agents, their calls.  An agent passes a tool    *)
(* any value; the next tool may get the document of the one before.        *)
(***************************************************************************)
\* None, 42, [], '', nine blanks, '123456789', '  123456789  ', 'abcdefghij',
\* 营收5000万元，增长25%。
\* 北京、上海、广州、深圳、杭州、南京、成都、武汉、西安、重庆
\* 因为市场需求持续增长所以公司营收达到了新的高点。
\* Tesla Motors and GDP grew 3.5% in USA
\* 营收1,234万元同比增长
ToolTexts ==
  { JNull, JInt(42), JList(<<>>), JStr(<<>>),
    JStr(<<32, 32, 32, 32, 32, 32, 32, 32, 32>>),
    JStr(<<49, 50, 51, 52, 53, 54, 55, 56, 57>>),
    JStr(<<32, 32, 49, 50, 51, 52, 53, 54, 55, 56, 57, 32, 32>>),
    JStr(<<97, 98, 99, 100, 101, 102, 103, 104, 105, 106>>),
    JStr(<<33829, 25910, 53, 48, 48, 48, 19975, 20803, 65292, 22686, 38271, 50, 53, 37, 12290>>),
    JStr(<<21271, 20140, 12289, 19978, 28023, 12289, 24191, 24030, 12289, 28145, 22323, 12289, 26477, 24030, 12289, 21335, 20140, 12289, 25104, 37117, 12289, 27494, 27721, 12289, 35199, 23433, 12289, 37325, 24198>>),
    JStr(<<22240, 20026, 24066, 22330, 38656, 27714, 25345, 32493, 22686, 38271, 25152, 20197, 20844, 21496, 33829, 25910, 36798, 21040, 20102, 26032, 30340, 39640, 28857, 12290>>),
    JStr(<<84, 101, 115, 108, 97, 32, 77, 111, 116, 111, 114, 115, 32, 97, 110, 100, 32, 71, 68, 80, 32, 103, 114, 101, 119, 32, 51, 46, 53, 37, 32, 105, 110, 32, 85, 83, 65>>),
    JStr(<<33829, 25910, 49, 44, 50, 51, 52, 19975, 20803, 21516, 27604, 22686, 38271>>) }

\* 北京, a blank, '' in entities; 营收: ' 100 ', 备注: ' ' in metrics;
\* '  增长  ' in core_arguments
BlankEntries ==
  JDict(<< <<KeyEntities, JList(<<JStr(<<21271, 20140>>), JStr(<<32>>), JStr(<<>>)>>)>>,
           <<KeyMetrics, JDict(<< <<<<33829, 25910>>, JStr(<<32, 49, 48, 48, 32>>)>>,
                                  <<<<22791, 27880>>, JStr(<<32>>)>> >>)>>,
           <<KeyCategories, JList(<<>>)>>,
           <<KeyCoreArguments, JList(<<JStr(<<32, 32, 22686, 38271, 32, 32>>)>>)>> >>)

\* 营收: 100, 退货: 0 in metrics
ZeroMetric ==
  JDict(<< <<KeyEntities, JList(<<JStr(<<21271, 20140>>)>>)>>,
           <<KeyMetrics, JDict(<< <<<<33829, 25910>>, JInt(100)>>, <<<<36864, 36135>>, JInt(0)>> >>)>>,
           <<KeyCategories, JList(<<>>)>>,
           <<KeyCoreArguments, JList(<<>>)>> >>)

\* 0, 北京, None, 12.5 in entities
OddEntries ==
  JDict(<< <<KeyEntities, JList(<<JInt(0), JStr(<<21271, 20140>>), JNull, JNum(125, 1)>>)>>,
           <<KeyMetrics, JDict(<<>>)>> >>)

\* what an agent may pass to DataStructuringTool._run besides the document of
\* ContentExtractionTool._run: 'not json', '', null, ["entities"], 5,
\* {"metrics": ["营收"]}, and dicts with the sections above
ExtractedContents ==
  { BadText(<<110, 111, 116, 32, 106, 115, 111, 110>>), BadText(<<>>),
    JsonText(JNull), JsonText(JList(<<JStr(KeyEntities)>>)), Object(JInt(5)),
    JsonText(JDict(<< <<KeyMetrics, JList(<<JStr(<<33829, 25910>>)>>)>> >>)),
    JsonText(JDict(<<>>)),
    JsonText(BlankEntries), Object(BlankEntries),
    JsonText(ZeroMetric), Object(ZeroMetric),
    JsonText(OddEntries) }

InitTools ==
  /\ jieba_initialized = FALSE
  /\ self_patterns = [p \in Processors |-> <<>>]
  /\ text = <<>>
  /\ call = NoCall
  /\ returned = Nothing
  /\ first_summary = NoSummary
  /\ others_since = FALSE
  /\ viz_input = NoPayload
  /\ viz_output = NoOutput
  /\ DemoIdle
  /\ MainIdle
  /\ tool_text \in ToolTexts
  /\ extracted = NoPayload
  /\ structuring_argument = NoPayload
  /\ structured = NoPayload
  /\ authenticity = Nothing

\* ContentExtractionTool()._run(text)
ExtractContent ==
  /\ extracted = NoPayload
  /\ extracted' = ContentExtractionTool_run(tool_text)
  /\ UNCHANGED <<textVars, vizVars, demoVars, mainVars, tool_text, structuring_argument,
                 structured, authenticity>>

\* DataStructuringTool()._run(extracted_content)
StructureData(argument) ==
  /\ structured = NoPayload
  /\ structuring_argument' = argument
  /\ structured' = DataStructuringTool_run(argument)
  /\ UNCHANGED <<textVars, vizVars, demoVars, mainVars, tool_text, extracted, authenticity>>

\* VisualizationTool()._run(structured_data), on the document of
\* DataStructuringTool._run
VisualizeStructured ==
  /\ structured # NoPayload
  /\ viz_output = NoOutput
  /\ viz_input' = structured
  /\ viz_output' = _run(structured)
  /\ UNCHANGED <<textVars, demoVars, mainVars, toolVars>>

\* validate_data_authenticity(result_data, original_text), on the document of
\* VisualizationTool._run
ValidateVisualization ==
  /\ viz_output # NoOutput
  /\ authenticity = Nothing
  /\ authenticity' = validate_data_authenticity(VisualizationJson(viz_output))
  /\ UNCHANGED <<textVars, vizVars, demoVars, mainVars, tool_text, extracted,
                 structuring_argument, structured>>

NextTools ==
  \/ ExtractContent
  \/ \E argument \in {extracted} \cup ExtractedContents :
       argument # NoPayload /\ StructureData(argument)
  \/ VisualizeStructured
  \/ ValidateVisualization

SpecTools == InitTools /\ [][NextTools]_vars

(***************************************************************************)
(* Claims about the tools.                                                 *)
(***************************************************************************)
\* the text statistics of a document
Statistic(document, key) == Lookup(Lookup(document, KeyTextStatistics), key)

\* the document is the fallback response: status 'fallback', statistics 0
IsFallbackDocument(document) ==
  /\ Get(document, KeyStatus, JNull) = JStr(StrFallback)
  /\ Statistic(document, KeyWordCount) = JInt(0)
  /\ Statistic(document, KeyCharCount) = JInt(0)
  /\ Statistic(document, KeyLineCount) = JInt(0)

\* the argument is a str of at least 10 characters once stripped
IsLongText(argument) == argument.type = "str" /\ Len(Strip(argument.chars)) >= 10

\* C23: ContentExtractionTool._run always returns a JSON document with the
\* keys entities, metrics, categories and core_arguments; it is the fallback
\* document (status 'fallback', all text statistics 0) for an argument that
\* is empty, is no str or has fewer than 10 characters once stripped, and the
\* analysis of the text (no status, the statistics of the text) for every
\* longer str.
C23_ExtractionTotal ==
  extracted # NoPayload =>
    /\ extracted.kind = "text" /\ extracted.json
    /\ extracted.value.type = "dict"
    /\ \A k \in 1..Len(required_keys) : HasKey(extracted.value, required_keys[k])
    /\ IF IsLongText(tool_text)
         THEN /\ ~HasKey(extracted.value, KeyStatus)
              /\ Statistic(extracted.value, KeyCharCount) = JInt(Len(tool_text.chars))
              /\ Statistic(extracted.value, KeyWordCount) = JInt(SplitCount(tool_text.chars))
       ELSE IsFallbackDocument(extracted.value)

\* a text of 13 characters, 9 once stripped, was answered with the fallback
C23_Witness ==
  /\ extracted # NoPayload
  /\ tool_text.type = "str"
  /\ Len(tool_text.chars) >= 10
  /\ ~IsLongText(tool_text)
  /\ IsFallbackDocument(extracted.value)

\* the values of the metrics of a document
MetricValues(document) ==
  {Lookup(document, KeyMetrics).pairs[i][2] :
     i \in 1..Len(Lookup(document, KeyMetrics).pairs)}

\* C26: the metrics ContentExtractionTool._run returns for a text hold every
\* match of each of the four number patterns (amount with unit, percentage,
\* amount with magnitude, bare number): no entry written for one pattern is
\* overwritten by an entry written for a later pattern.
C26_NoMetricLost ==
  (extracted # NoPayload /\ IsLongText(tool_text)) =>
    \A p \in 1..Len(number_patterns) :
      \A match \in Range(ToolFindAll(number_patterns[p], tool_text.chars)) :
        JStr(Strip(match)) \in MetricValues(extracted.value)

\* DataStructuringTool._run got a str that is not JSON, or fell back
StructuringFailed ==
  /\ structured # NoPayload
  /\ \/ structuring_argument.kind = "text" /\ ~structuring_argument.json
     \/ HasKey(structured.value, KeyErrorField)

\* C27: when DataStructuringTool._run got input that is not JSON, or fell
\* back after an error (its document has an 'error' field), the result of
\* VisualizationTool._run on that document is the error card, never an
\* error-free result with zero items.
C27_ErrorStaysVisible ==
  (StructuringFailed /\ viz_output # NoOutput) =>
    /\ viz_output = _create_fallback_visualization
    /\ viz_output.total_items > 0

\* the stripped string forms of the entries that are not blank, in order
RECURSIVE NonBlankForms(_)
NonBlankForms(items) ==
  IF items = <<>> THEN <<>>
  ELSE (IF Strip(PyStr(Head(items))) # <<>> THEN <<JStr(Strip(PyStr(Head(items))))>>
        ELSE <<>>)
         \o NonBlankForms(Tail(items))

\* the metrics whose value is not blank, with their stripped string forms
RECURSIVE NonBlankMetrics(_)
NonBlankMetrics(pairs) ==
  IF pairs = <<>> THEN <<>>
  ELSE (IF Strip(PyStr(Head(pairs)[2])) # <<>>
          THEN << <<Strip(Head(pairs)[1]), JStr(Strip(PyStr(Head(pairs)[2])))>> >>
        ELSE <<>>)
         \o NonBlankMetrics(Tail(pairs))

\* the section a document should have for a section of the input
ExpectedSection(data, key) ==
  IF ~HasKey(data, key) THEN (IF key = KeyMetrics THEN JDict(<<>>) ELSE JList(<<>>))
  ELSE IF key = KeyMetrics THEN JDict(NonBlankMetrics(Lookup(data, key).pairs))
  ELSE JList(NonBlankForms(Lookup(data, key).items))

\* data is a dict whose sections, where present, are lists and a dict of metrics
HasProperSections(data) ==
  /\ data.type = "dict"
  /\ \A k \in 1..Len(required_keys) :
       HasKey(data, required_keys[k]) =>
         Lookup(data, required_keys[k]).type
           = (IF required_keys[k] = KeyMetrics THEN "dict" ELSE "list")

\* the totals and the quality of a document are those of its sections
SummaryOfSections(document) ==
  LET summary == Lookup(document, KeyDataSummary)
      quality == Lookup(document, KeyDataQuality)
      score == Cardinality({k \in 1..Len(required_keys) :
                              PyLen(Lookup(document, required_keys[k])) > 0})
  IN  /\ Lookup(summary, KeyTotalEntities) = JInt(PyLen(Lookup(document, KeyEntities)))
      /\ Lookup(summary, KeyTotalMetrics) = JInt(PyLen(Lookup(document, KeyMetrics)))
      /\ Lookup(summary, KeyTotalCategories) = JInt(PyLen(Lookup(document, KeyCategories)))
      /\ Lookup(summary, KeyTotalArguments) = JInt(PyLen(Lookup(document, KeyCoreArguments)))
      /\ Lookup(quality, KeyScore) = JInt(score)
      /\ NumEq(Lookup(quality, KeyPercentage), JInt(25 * score))

\* C30: for a dict with list sections and a dict of metrics, each section of
\* the document DataStructuringTool._run returns holds, in order, exactly the
\* input entries whose string form is not blank (a metric whose value is the
\* number 0 is kept), and the totals of data_summary and the score of
\* data_quality (the number of non-empty sections, percentage 25 x score) are
\* those of the cleaned sections.
C30_OnlyBlanksRemoved ==
  (structured # NoPayload /\ HasProperSections(structuring_data(structuring_argument))) =>
    /\ \A k \in 1..Len(required_keys) :
         Lookup(structured.value, required_keys[k])
           = ExpectedSection(structuring_data(structuring_argument), required_keys[k])
    /\ SummaryOfSections(structured.value)

\* C29: the result VisualizationTool._run makes from a payload is never
\* reported as fabricated: validate_data_authenticity, given the document the
\* tool returned, answers has_virtual_data = false, whatever the number of
\* entities the pie chart counts.
C29_OwnOutputNotFlagged ==
  authenticity # Nothing =>
    /\ ~authenticity.raised
    /\ ~authenticity.value.has_virtual_data

====
